---- MODULE Spec2Model ----
(***************************************************************************)
(* Route and slippage acquisition pipelines of the assets-availability     *)
(* backend (lifiService.ts, okuService.ts, slippageService.ts,              *)
(* okuSlippageService.ts) and the cache tables they write.                 *)
(*                                                                         *)
(* Strings are the token symbols and provider names of the source.  A      *)
(* slippage value is held in thousandths of a percent (1.0 % = 1000), so   *)
(* that "rounded to 3 decimals" is an integer.  NULL is SQL NULL / JS null. *)
(***************************************************************************)
EXTENDS Integers, Sequences, FiniteSets, Bags, TLC

VARIABLES
    enum,            \* the pair-enumeration loop of a route fetch (tokens, i, j, pairs, tokenPairs)
    calc,            \* one slippage computation: the quote's USD amounts and the stored bucket
                     \* (SpecCalc, SpecOkuBest), or the frame of a queryWithRetry call (SpecQuery)
    tokens,          \* rows of the tokens table, ORDER BY symbol
    tokenPrices,     \* latest price per token (getLatestTokenPrices), a function on the priced symbols
    routes_cache,    \* table routes_cache: a bag of rows
    rr,              \* the route fetch runs: rr[p] is the frame of fetchAndCache<p>Data
    hist,            \* the last two route fetch runs: provider, answers, the cache each left
    slippage_cache,  \* table slippage_cache: a bag of rows
    requestCount,    \* the module-level request counters, one per slippage service
    now,             \* the clock new Date() reads, in milliseconds
    sr,              \* the slippage runs: sr[r] is the frame of run r
    rd,              \* the call of getCached(Oku)SlippageData in progress
    upstream,        \* what the LiFi and Oku services answer in this behaviour
    slipHist,        \* the last two slippage runs: entry point, rows written, store faults
    srv              \* the server process: environment, setup, callers and their pipeline runs
                     \* (SpecServer), or the frame of a request handler (SpecRoutesGet)

routeVars == <<tokens, tokenPrices, routes_cache, rr, hist>>
pureVars == <<enum, calc, srv>>
slipVars == <<slippage_cache, requestCount, now, sr, rd, upstream, slipHist>>
vars == <<enum, calc, tokens, tokenPrices, routes_cache, rr, hist,
          slippage_cache, requestCount, now, sr, rd, upstream, slipHist, srv>>

NULL == "null"

\* the slippage pipelines have not been started, and the server process is
\* not part of the specification
NoSlippage ==
    /\ slippage_cache = EmptyBag /\ requestCount = NULL /\ now = 0
    /\ sr = NULL /\ rd = NULL /\ upstream = NULL /\ slipHist = NULL
    /\ srv = NULL

(***************************************************************************)
(* Bounds of the model.                                                    *)
(***************************************************************************)
\* size of the largest token registry the enumeration is run on
NumTokens == 5
\* quotes report USD amounts in 0..MaxUsd (and the spec's 990 and 1000)
MaxUsd == 12

(***************************************************************************)
(* Token registry: symbols of tokens.ts, in the order of                   *)
(* "SELECT ... FROM tokens ORDER BY symbol".                               *)
(***************************************************************************)
Symbols == <<"LBTC", "USDC", "USDT", "WBTC", "WETH", "WXTZ">>

Rank(s) == CHOOSE k \in 1..Len(Symbols) : Symbols[k] = s

SeqRange(s) == {s[k] : k \in 1..Len(s)}

\* the rows of the tokens table holding the symbols of S, ORDER BY symbol
RECURSIVE SortedSeq(_)
SortedSeq(S) ==
    IF S = {} THEN <<>>
    ELSE LET m == CHOOSE x \in S : \A y \in S : Rank(x) <= Rank(y)
         IN  <<m>> \o SortedSeq(S \ {m})

Registries == {SortedSeq(S) : S \in {T \in SUBSET SeqRange(Symbols) : Cardinality(T) <= NumTokens}}

(***************************************************************************)
(* Exhaustive pair enumeration (lifiService.ts 17-39, okuService.ts        *)
(* 174-196).                                                               *)
(***************************************************************************)
\* [from.symbol, to.symbol].sort().join("->")
PairKeyUnsorted(a, b) == <<a, b>>
PairKey(a, b) == IF Rank(a) <= Rank(b) THEN <<a, b>> ELSE <<b, a>>

\* one pass through the body of the inner loop, for indices i, j
EnumBody(toks, i, j, st) ==
    IF i = j THEN st
    ELSE LET from == toks[i]
             to == toks[j]
             pairKey == PairKey(from, to)
         IN  IF pairKey \in st.pairs THEN st
             ELSE [pairs |-> st.pairs \cup {pairKey},
                   tokenPairs |-> st.tokenPairs \o
                       << [from |-> from, to |-> to], [from |-> to, to |-> from] >>]

RECURSIVE EnumFrom(_, _, _, _)
EnumFrom(toks, i, j, st) ==
    IF i > Len(toks) THEN st
    ELSE IF j > Len(toks) THEN EnumFrom(toks, i + 1, 1, st)
    ELSE EnumFrom(toks, i, j + 1, EnumBody(toks, i, j, st))

\* the tokenPairs array the route fetch loops over
ExhaustivePairs(toks) == EnumFrom(toks, 1, 1, [pairs |-> {}, tokenPairs |-> <<>>]).tokenPairs

(***************************************************************************)
(* Slippage of a LiFi quote (slippageService.ts 682-692).                  *)
(***************************************************************************)
\* Math.round(x) for x = num/den, den > 0: the nearest integer, ties upwards
MathRoundDown(num, den) == num \div den
MathRound(num, den) == (2 * num + den) \div (2 * den)

\* Math.round(((f - t) / f) * 100 * 1000) / 1000, in thousandths of a percent.
\* f = 0 divides by zero: JS yields NaN (0/0) or -Infinity (-t/0), and
\* Math.round keeps them.
CalcSlippage(f, t) ==
    IF f = 0 THEN (IF t = 0 THEN "NaN" ELSE "-Infinity")
    ELSE MathRound((f - t) * 100 * 1000, f)

(***************************************************************************)
(* Specification SpecEnum: the enumeration loop, one iteration per step,   *)
(* over every registry of at most NumTokens tokens.                        *)
(***************************************************************************)
EnumInit ==
    /\ enum \in {[tokens |-> r, i |-> 1, j |-> 1, pairs |-> {}, tokenPairs |-> <<>>,
                  done |-> FALSE] : r \in Registries}
    /\ calc = NULL
    /\ tokens = <<>> /\ tokenPrices = <<>> /\ routes_cache = EmptyBag
    /\ rr = NULL /\ hist = NULL
    /\ NoSlippage

\* for (j ...) { body }
EnumInner ==
    /\ ~enum.done
    /\ enum.i <= Len(enum.tokens)
    /\ enum.j <= Len(enum.tokens)
    /\ LET st == EnumBody(enum.tokens, enum.i, enum.j,
                          [pairs |-> enum.pairs, tokenPairs |-> enum.tokenPairs])
       IN  enum' = [enum EXCEPT !.j = @ + 1, !.pairs = st.pairs,
                                !.tokenPairs = st.tokenPairs]
    /\ UNCHANGED <<calc, srv, routeVars, slipVars>>

\* the inner loop ends: i++
EnumOuter ==
    /\ ~enum.done
    /\ enum.i <= Len(enum.tokens)
    /\ enum.j > Len(enum.tokens)
    /\ enum' = [enum EXCEPT !.i = @ + 1, !.j = 1]
    /\ UNCHANGED <<calc, srv, routeVars, slipVars>>

\* the outer loop ends: tokenPairs is complete
EnumDone ==
    /\ ~enum.done
    /\ enum.i > Len(enum.tokens)
    /\ enum' = [enum EXCEPT !.done = TRUE]
    /\ UNCHANGED <<calc, srv, routeVars, slipVars>>

EnumNext == EnumInner \/ EnumOuter \/ EnumDone

SpecEnum == EnumInit /\ [][EnumNext]_vars

(***************************************************************************)
(* Specification SpecCalc: one quote, one stored bucket.                   *)
(***************************************************************************)
QuoteUsd == (0..MaxUsd) \cup {990, 1000}

CalcInit ==
    /\ calc \in {[fromAmountUSD |-> f, toAmountUSD |-> t, stored |-> NULL, done |-> FALSE] :
                 f \in QuoteUsd, t \in QuoteUsd}
    /\ enum = NULL
    /\ tokens = <<>> /\ tokenPrices = <<>> /\ routes_cache = EmptyBag
    /\ rr = NULL /\ hist = NULL
    /\ NoSlippage

CalcStore ==
    /\ ~calc.done
    /\ calc' = [calc EXCEPT !.stored = CalcSlippage(calc.fromAmountUSD, calc.toAmountUSD),
                            !.done = TRUE]
    /\ UNCHANGED <<enum, srv, routeVars, slipVars>>

CalcNext == CalcStore

SpecCalc == CalcInit /\ [][CalcNext]_vars

(***************************************************************************)
(* Table routes_cache (types.ts 65-75, unique index 106-110).  A row is    *)
(* [pair_from, pair_to, provider, routes_data]; routes_data is the         *)
(* PairRoutes object that JSON.stringify wrote and JSON.parse reads back.  *)
(* last_updated is left out: no pipeline reads it.                         *)
(***************************************************************************)
RouteKey(r) == <<r.pair_from, r.pair_to, r.provider>>

\* DELETE ... WHERE: the rows of S leave the table
DeleteRows(table, S) == [r \in (DOMAIN table) \ S |-> table[r]]

\* number of rows of the table that satisfy Test(_)
RECURSIVE SumCopies(_, _)
SumCopies(table, S) ==
    IF S = {} THEN 0
    ELSE LET r == CHOOSE x \in S : TRUE
         IN  table[r] + SumCopies(table, S \ {r})
CountRows(table, Test(_)) == SumCopies(table, {r \in DOMAIN table : Test(r)})

\* INSERT INTO a table with no unique index (slippage_cache)
InsertRowTwice(table, row) == table (+) SetToBag({row}) (+) SetToBag({row})
InsertRow(table, row) == table (+) SetToBag({row})

\* INSERT ... ON CONFLICT (pair_from, pair_to, provider) DO UPDATE SET routes_data
UpsertRouteNoConflict(table, row) == table (+) SetToBag({row})
UpsertRoute(table, row) ==
    LET hit == {r \in DOMAIN table : RouteKey(r) = RouteKey(row)}
    IN  IF hit = {} THEN table (+) SetToBag({row})
        ELSE DeleteRows(table, hit) (+) SetToBag({row})

RouteRow(from, to, provider, dexes) ==
    [pair_from |-> from, pair_to |-> to, provider |-> provider,
     routes_data |-> [pair |-> [from |-> from, to |-> to],
                      routes |-> << [aggregator |-> provider, dexes |-> dexes] >>]]

(***************************************************************************)
(* Oku quotes (okuService.ts 353-357, 409-452).  A GetNewQuotes response   *)
(* lists the routers in key order; a router's entry is one of              *)
(*   notFetched  fetched = false                                           *)
(*   error       fetched, quote.error set                                  *)
(*   noQuote     fetched, no quote                                         *)
(*   simFailed   fetched, quote.quote.simulationError set                  *)
(*   ok          fetched, quote without simulationError                    *)
(***************************************************************************)
Routers == <<"threeroute", "usor">>

\* Object.values(quotes).filter((quote) => quote.fetched).length === 2
HasFetchedQuotes(q) == Cardinality({n \in 1..Len(q) : q[n].st # "notFetched"}) = 2

RECURSIVE SelectDexes(_, _, _)
SelectDexes(q, st, mark) ==
    IF q = <<>> THEN <<>>
    ELSE (IF Head(q).st = st THEN << [name |-> Head(q).router, mark |-> mark] >> ELSE <<>>)
         \o SelectDexes(Tail(q), st, mark)

\* the routers with a quote in the order of the response's keys
RECURSIVE DexesInKeyOrder(_)
DexesInKeyOrder(q) ==
    IF q = <<>> THEN <<>>
    ELSE (CASE Head(q).st = "ok" -> << [name |-> Head(q).router, mark |-> ""] >>
            [] Head(q).st = "simFailed" -> << [name |-> Head(q).router, mark |-> "X"] >>
            [] OTHER -> <<>>)
         \o DexesInKeyOrder(Tail(q))

\* [...supportedDexes, ...simulationFailedDexes.map((dex) => dex + X mark)];
\* the suffix is the field mark, "X" for the source's cross mark
AllDexes(q) == SelectDexes(q, "ok", "") \o SelectDexes(q, "simFailed", "X")

\* the responses the Oku service gives to GetNewQuotes in the pipeline runs
QuoteAnswers ==
    { << [router |-> Routers[1], st |-> a], [router |-> Routers[2], st |-> b] >> :
      <<a, b>> \in {<<"ok", "simFailed">>, <<"simFailed", "ok">>, <<"notFetched", "ok">>,
                    <<"error", "noQuote">>} }

(***************************************************************************)
(* Bounds and constants of the route fetch runs.                           *)
(***************************************************************************)
\* the registry of the route fetch runs: two tokens, so both directions of one pair
RunTokens == <<"USDC", "WETH">>
\* route fetch runs started, of both providers together
MaxRouteRuns == 2
\* orders the Oku service reports as completed or canceled during one probe
MaxExpired == 2
\* ORDER_REFRESH_INTERVAL (okuService.ts 208: 50), scaled to the registry
OrderRefreshScaled == 1
ORDER_REFRESH_INTERVAL == OrderRefreshScaled
updateParamsMaxRetries == 3
maxRetries == 5

Providers == {"LiFi", "Oku"}

\* currentOrderId === null; the orders of the service are numbered from 1
NoOrder == 0

\* how the probe of one pair ended: what the upstream (or the cache write) answered
Answer(a, dexes) == [a |-> a, dexes |-> dexes]
NoRun == [provider |-> "none", answers |-> <<>>, cache |-> EmptyBag]

IdleFrame ==
    [pc |-> "idle", runs |-> 0, tokenPairs |-> <<>>, k |-> 1,
     successCount |-> 0, errorCount |-> 0,
     currentOrderId |-> NoOrder, pairsProcessedWithCurrentOrder |-> 0,
     retry |-> 0, reqOrderId |-> NoOrder, resp |-> NULL, expired |-> 0, creates |-> 0,
     \* one of the GetNewQuotes attempts retryCount counts has thrown
     threw |-> FALSE,
     \* UpdateQuoteParams and GetNewQuotes requests sent in the current probe,
     \* counted up to one more than the retry bound
     updates |-> 0, quotes |-> 0,
     \* an UpdateQuoteParams request of the current pair has succeeded on the
     \* order currentOrderId names
     paramsSet |-> FALSE,
     \* pairs that had a request sent on the order currentOrderId names, and
     \* whether the current pair is one of them
     orderPairs |-> 0, orderUsed |-> FALSE,
     \* quotesResponse.data.quotes of the pair: the last GetNewQuotes response
     quotesResponse |-> <<>>,
     answers |-> <<>>,
     \* the promise of the run was rejected: never, since the catch that ends the
     \* function (lifiService.ts 107-109, okuService.ts 505-507) only logs
     rejected |-> FALSE]

\* POST /routes/fetch and /routes/oku/fetch (server.ts 218-240): what the
\* handler answers after it has awaited the run
TriggerResponse(f) ==
    IF f.rejected THEN [status |-> 500, body |-> "Failed to trigger routes fetch"]
    ELSE [status |-> 200, body |-> "Routes fetch completed"]

\* the run ended in its outer catch before the loop over the pairs: the
\* tokens read or the DELETE threw
SetupFailed(f) == f.pc = "done" /\ f.answers = <<Answer("fatal", <<>>)>> /\ f.creates = 0

\* the frame of a run that has read the tokens table
StartFrame(f, toks) ==
    [IdleFrame EXCEPT !.pc = "started", !.runs = f.runs + 1,
                      !.tokenPairs = ExhaustivePairs(toks)]

\* the triggers of server.ts (74-78, 218-240) await one route fetch before
\* they start the next
NoRouteRun == \A p \in Providers : rr[p].pc \in {"idle", "done"}
RouteRunsStarted == rr["LiFi"].runs + rr["Oku"].runs

RouteInit ==
    /\ enum = NULL /\ calc = NULL
    /\ tokens = RunTokens
    /\ tokenPrices \in {[s \in S |-> 2] : S \in SUBSET SeqRange(tokens)}
    /\ routes_cache = EmptyBag
    /\ rr = [p \in Providers |-> IdleFrame]
    /\ hist = [prev |-> NoRun, last |-> NoRun]
    /\ NoSlippage

\* a run of provider p begins: the frames of the earlier runs are gone, and
\* the run before it is the one to compare with
BeginRun(p, frame) ==
    [q \in Providers |-> IF q = p THEN frame ELSE [IdleFrame EXCEPT !.runs = rr[q].runs]]
Begun == [prev |-> hist.last, last |-> NoRun]

\* a run of provider p ends: what it answered and the cache it leaves
EndRun(h, p, answers, cache) ==
    [h EXCEPT !.last = [provider |-> p, answers |-> answers, cache |-> cache]]

(***************************************************************************)
(* fetchAndCacheLiFiData (lifiService.ts 7-110).                           *)
(***************************************************************************)
\* 10-41: read the tokens table and enumerate the pairs; a failed read is
\* caught at 107 and ends the run
LifiRouteStart ==
    /\ NoRouteRun
    /\ RouteRunsStarted < MaxRouteRuns
    /\ \E ok \in BOOLEAN :
          IF ok
          THEN /\ rr' = BeginRun("LiFi", StartFrame(rr["LiFi"], tokens))
               /\ hist' = Begun
          ELSE /\ rr' = BeginRun("LiFi", [StartFrame(rr["LiFi"], <<>>) EXCEPT
                                             !.pc = "done", !.answers = <<Answer("fatal", <<>>)>>])
               /\ hist' = EndRun(Begun, "LiFi", <<Answer("fatal", <<>>)>>, routes_cache)
    /\ UNCHANGED <<pureVars, slipVars, tokens, tokenPrices, routes_cache>>

\* 43-44: DELETE FROM routes_cache
LifiRouteClear ==
    /\ rr["LiFi"].pc = "started"
    /\ \E ok \in BOOLEAN :
          IF ok
          THEN /\ routes_cache' = EmptyBag
               /\ rr' = [rr EXCEPT !["LiFi"].pc = "loop"]
               /\ UNCHANGED hist
          ELSE /\ rr' = [rr EXCEPT !["LiFi"].pc = "done",
                                   !["LiFi"].answers = <<Answer("fatal", <<>>)>>]
               /\ hist' = EndRun(hist, "LiFi", <<Answer("fatal", <<>>)>>, routes_cache)
               /\ UNCHANGED routes_cache
    /\ UNCHANGED <<pureVars, slipVars, tokens, tokenPrices>>

\* 51-102: one pair: GET /v1/connections, then the upsert
LifiRouteProbe ==
    /\ rr["LiFi"].pc = "loop"
    /\ rr["LiFi"].k <= Len(rr["LiFi"].tokenPairs)
    /\ LET f == rr["LiFi"]
           from == f.tokenPairs[f.k].from
           to == f.tokenPairs[f.k].to
       IN \E ans \in {"connected", "none", "error", "dbError"} :
            /\ rr' = [rr EXCEPT !["LiFi"].k = @ + 1,
                                !["LiFi"].answers = Append(@, Answer(ans, <<>>)),
                                !["LiFi"].successCount = IF ans = "connected" THEN @ + 1 ELSE @,
                                !["LiFi"].errorCount =
                                    IF ans \in {"error", "dbError"} THEN @ + 1 ELSE @]
            /\ routes_cache' =
                  IF ans = "connected"
                  THEN UpsertRoute(routes_cache, RouteRow(from, to, "LiFi", <<>>))
                  ELSE routes_cache
    /\ UNCHANGED <<pureVars, slipVars, tokens, tokenPrices, hist>>

\* 104-106: the loop is over
LifiRouteEnd ==
    /\ rr["LiFi"].pc = "loop"
    /\ rr["LiFi"].k > Len(rr["LiFi"].tokenPairs)
    /\ rr' = [rr EXCEPT !["LiFi"].pc = "done"]
    /\ hist' = EndRun(hist, "LiFi", rr["LiFi"].answers, routes_cache)
    /\ UNCHANGED <<pureVars, slipVars, tokens, tokenPrices, routes_cache>>

(***************************************************************************)
(* fetchAndCacheOkuData (okuService.ts 160-508).  A request and the        *)
(* handling of its response are one step; the fixed waits between          *)
(* attempts change no state.                                               *)
(***************************************************************************)
\* updateParamsRetryCount++ / retryCount++, then the test that decides
\* between another attempt and the throw (313-323, 397-405)
UpdateRetryLeftOneMore(retry) == retry < updateParamsMaxRetries
UpdateRetryLeft(retry) == retry + 1 < updateParamsMaxRetries
QuoteRetryLeft(retry) == retry + 1 < maxRetries

\* expired and creates record what happened during one probe; they are not
\* variables of the program and stop counting at MaxExpired (+ 1)
CountUpTo(n, max) == IF n < max THEN n + 1 ELSE n

\* a request of the current pair goes out on the current order
OnOrder(f) ==
    IF f.orderUsed THEN f
    ELSE [f EXCEPT !.orderUsed = TRUE,
                   !.orderPairs = CountUpTo(@, ORDER_REFRESH_INTERVAL + 1)]

\* createOkuOrder (87-110) answers with an order id other than the one the
\* run holds
NewOrderId(f) == (f.currentOrderId % 2) + 1

\* the catch handing over to the pair after the next one
OkuPairFailedSkipOne(f, r) ==
    [f EXCEPT !.pc = "loop", !.k = @ + 2, !.errorCount = @ + 1, !.resp = r,
              !.retry = 0, !.threw = FALSE, !.reqOrderId = NoOrder, !.expired = 0, !.creates = 0,
              !.updates = 0, !.quotes = 0, !.paramsSet = FALSE, !.orderUsed = FALSE,
              !.quotesResponse = <<>>,
              !.answers = Append(@, Answer("failed", <<>>))]

\* the per-pair catch at 492-499: errorCount++, on to the next pair
OkuPairFailed(f, r) ==
    [f EXCEPT !.pc = "loop", !.k = @ + 1, !.errorCount = @ + 1, !.resp = r,
              !.retry = 0, !.threw = FALSE, !.reqOrderId = NoOrder, !.expired = 0, !.creates = 0,
              !.updates = 0, !.quotes = 0, !.paramsSet = FALSE, !.orderUsed = FALSE,
              !.quotesResponse = <<>>,
              !.answers = Append(@, Answer("failed", <<>>))]

\* 289-308 / 376-395: "order already completed or canceled": createOkuOrder
\* answered with order id newId; the request of the step gets the new id and
\* the step's retry counter is reset
OkuRecreateKeepRetry(f, newId) ==
    [f EXCEPT !.currentOrderId = newId, !.pairsProcessedWithCurrentOrder = 0,
              !.reqOrderId = newId, !.resp = "expired",
              !.expired = CountUpTo(@, MaxExpired),
              !.creates = CountUpTo(@, MaxExpired + 1)]
OkuRecreateSkipStep(f, newId) ==
    [f EXCEPT !.currentOrderId = newId, !.pairsProcessedWithCurrentOrder = 0,
              !.reqOrderId = newId, !.retry = 0, !.threw = FALSE, !.resp = "expired",
              !.expired = CountUpTo(@, MaxExpired),
              !.creates = CountUpTo(@, MaxExpired + 1),
              !.pc = IF @ = "update" THEN "quote" ELSE @]
OkuRecreateCountRetry(f, newId) ==
    [f EXCEPT !.currentOrderId = newId, !.pairsProcessedWithCurrentOrder = 0,
              !.reqOrderId = newId, !.retry = @ + 1, !.resp = "expired",
              !.expired = CountUpTo(@, MaxExpired),
              !.creates = CountUpTo(@, MaxExpired + 1)]
OkuRecreate(f, newId) ==
    [f EXCEPT !.currentOrderId = newId, !.pairsProcessedWithCurrentOrder = 0,
              !.reqOrderId = newId, !.retry = 0, !.threw = FALSE, !.resp = "expired",
              !.expired = CountUpTo(@, MaxExpired),
              !.creates = CountUpTo(@, MaxExpired + 1)]

\* createOkuOrder threw inside the handler: nothing catches it before the
\* per-pair catch, so the pair is given up
OkuRecreateFailed(f) ==
    [OkuPairFailed(f, "createFailed") EXCEPT !.expired = CountUpTo(f.expired, MaxExpired),
                                             !.creates = CountUpTo(f.creates, MaxExpired + 1)]

\* 163-172: read the tokens table (and the prices) and enumerate the pairs
OkuRouteStart ==
    /\ NoRouteRun
    /\ RouteRunsStarted < MaxRouteRuns
    /\ \E ok \in BOOLEAN :
          IF ok
          THEN /\ rr' = BeginRun("Oku", [StartFrame(rr["Oku"], tokens) EXCEPT !.pc = "loop"])
               /\ hist' = Begun
          ELSE /\ rr' = BeginRun("Oku", [StartFrame(rr["Oku"], <<>>) EXCEPT
                                            !.pc = "done", !.answers = <<Answer("fatal", <<>>)>>])
               /\ hist' = EndRun(Begun, "Oku", <<Answer("fatal", <<>>)>>, routes_cache)
    /\ UNCHANGED <<pureVars, slipVars, tokens, tokenPrices, routes_cache>>

\* 211-256: the head of one iteration: order creation or rotation (outside
\* the per-pair try: a failed creation is caught at 505 and ends the run),
\* then the price lookup
OkuRoutePair ==
    /\ rr["Oku"].pc = "loop"
    /\ rr["Oku"].k <= Len(rr["Oku"].tokenPairs)
    /\ LET f == rr["Oku"]
           from == f.tokenPairs[f.k].from
           rotate == f.currentOrderId = NoOrder
                     \/ f.pairsProcessedWithCurrentOrder >= ORDER_REFRESH_INTERVAL
       IN \E created \in BOOLEAN :
            /\ ~rotate => created
            /\ IF rotate /\ ~created
               THEN /\ rr' = [rr EXCEPT !["Oku"] =
                                 [f EXCEPT !.pc = "done", !.expired = 0, !.creates = 1,
                                           !.answers = Append(@, Answer("fatal", <<>>))]]
                    /\ hist' = EndRun(hist, "Oku", Append(f.answers, Answer("fatal", <<>>)),
                                       routes_cache)
               ELSE LET g == IF rotate
                             THEN [f EXCEPT !.currentOrderId = NewOrderId(f),
                                            !.pairsProcessedWithCurrentOrder = 0,
                                            !.orderPairs = 0, !.quotesResponse = <<>>,
                                            !.threw = FALSE, !.expired = 0, !.creates = 1]
                             ELSE [f EXCEPT !.expired = 0, !.creates = 0, !.threw = FALSE,
                                            !.quotesResponse = <<>>]
                    IN /\ rr' = [rr EXCEPT !["Oku"] =
                                    IF from \notin DOMAIN tokenPrices
                                    THEN [g EXCEPT !.k = @ + 1, !.resp = NULL, !.creates = 0,
                                                   !.answers = Append(@, Answer("noPrice", <<>>))]
                                    ELSE [g EXCEPT !.pc = "update", !.retry = 0, !.threw = FALSE, !.resp = NULL,
                                                   !.reqOrderId = g.currentOrderId]]
                       /\ UNCHANGED hist
    /\ UNCHANGED <<pureVars, slipVars, tokens, tokenPrices, routes_cache>>

\* 276-324: one UpdateQuoteParams request and its response; the service
\* reports at most maxExpired orders as completed or canceled during a probe
OkuRouteUpdateUpTo(maxExpired) ==
    /\ rr["Oku"].pc = "update"
    /\ LET f == rr["Oku"]
       IN \E r \in {"ok", "error", "expired"}, created \in BOOLEAN :
            /\ r # "expired" => created
            /\ r = "expired" => f.expired < maxExpired
            /\ rr' = [rr EXCEPT !["Oku"] =
                  LET sent == [OnOrder(f) EXCEPT !.updates = CountUpTo(@, updateParamsMaxRetries + 1)]
                  IN  CASE r = "ok" ->
                             [sent EXCEPT !.pc = "quote", !.retry = 0, !.threw = FALSE, !.resp = r,
                                          !.reqOrderId = f.currentOrderId, !.paramsSet = TRUE]
                        [] r = "expired" /\ created ->
                             [OkuRecreate(sent, NewOrderId(f)) EXCEPT !.paramsSet = FALSE, !.orderPairs = 0,
                                                       !.orderUsed = FALSE]
                        [] r = "expired" /\ ~created -> OkuRecreateFailed(sent)
                        [] r = "error" /\ UpdateRetryLeft(f.retry) ->
                             [sent EXCEPT !.retry = @ + 1, !.resp = r]
                        [] OTHER -> OkuPairFailed(sent, r)]
    /\ UNCHANGED <<pureVars, slipVars, tokens, tokenPrices, routes_cache, hist>>

OkuRouteUpdate == OkuRouteUpdateUpTo(MaxExpired)

\* 409-491: the quotes of the last response are evaluated and the row is
\* upserted; stored tells whether the INSERT succeeded
OkuEvaluate(f, q, stored) ==
    IF AllDexes(q) # <<>> /\ ~stored
    THEN [OkuPairFailed(f, "quotes") EXCEPT !.quotesResponse = q]
    ELSE [f EXCEPT !.pc = "loop", !.k = @ + 1, !.resp = "quotes",
                   !.retry = 0, !.reqOrderId = NoOrder, !.expired = 0, !.creates = 0,
                   !.updates = 0, !.quotes = 0, !.paramsSet = FALSE, !.orderUsed = FALSE,
                   !.successCount = IF AllDexes(q) # <<>> THEN @ + 1 ELSE @,
                   !.pairsProcessedWithCurrentOrder = @ + 1, !.quotesResponse = q,
                   !.answers = Append(@, Answer("quotes", AllDexes(q)))]

\* a row is written for every evaluated pair whose statement succeeds
RowUpsertedWithoutVenue(q, stored) == stored

\* 454-478: if (allDexes.length > 0) the row of the pair is upserted
RowUpserted(q, stored) == AllDexes(q) # <<>> /\ stored

\* a response without both routers fetched is never evaluated
QuotesEvaluatedIfFetched(q, retry) == HasFetchedQuotes(q)

\* 353-375: a response leaves the retry loop for the evaluation when both
\* routers are fetched, or when it is the response of the last attempt
QuotesEvaluated(q, retry) == HasFetchedQuotes(q) \/ ~QuoteRetryLeft(retry)

\* what a GetNewQuotes request can come back with
QuoteResponses ==
    {[kind |-> "quotes", quotes |-> q] : q \in QuoteAnswers}
    \cup {[kind |-> "error", quotes |-> <<>>], [kind |-> "expired", quotes |-> <<>>]}

\* 340-407: one GetNewQuotes request and its response
OkuRouteQuoteUpTo(maxExpired) ==
    /\ rr["Oku"].pc = "quote"
    /\ LET f == rr["Oku"]
           from == f.tokenPairs[f.k].from
           to == f.tokenPairs[f.k].to
       IN \E r \in QuoteResponses, created \in BOOLEAN, stored \in BOOLEAN :
            /\ r.kind # "expired" => created
            /\ r.kind = "expired" => f.expired < maxExpired
            /\ AllDexes(r.quotes) = <<>> => stored
            /\ LET sent == [OnOrder(f) EXCEPT !.quotes = CountUpTo(@, maxRetries + 1)]
                   evaluated == r.kind = "quotes" /\ QuotesEvaluated(r.quotes, f.retry)
                   g == CASE evaluated -> OkuEvaluate(sent, r.quotes, stored)
                          [] r.kind = "quotes" /\ ~evaluated ->
                               [sent EXCEPT !.retry = @ + 1, !.resp = "quotes",
                                            !.quotesResponse = r.quotes]
                          [] r.kind = "expired" /\ created ->
                               [OkuRecreate(sent, NewOrderId(f)) EXCEPT !.paramsSet = FALSE, !.orderPairs = 0,
                                                       !.orderUsed = FALSE]
                          [] r.kind = "expired" /\ ~created -> OkuRecreateFailed(sent)
                          [] r.kind = "error" /\ QuoteRetryLeft(f.retry) ->
                               [sent EXCEPT !.retry = @ + 1, !.resp = r.kind, !.threw = TRUE]
                          [] OTHER -> OkuPairFailed(sent, r.kind)
                   written == evaluated /\ RowUpserted(r.quotes, stored)
               IN /\ rr' = [rr EXCEPT !["Oku"] = g]
                  /\ routes_cache' =
                        IF written
                        THEN UpsertRoute(routes_cache,
                                         RouteRow(from, to, "Oku", AllDexes(r.quotes)))
                        ELSE routes_cache
    /\ UNCHANGED <<pureVars, slipVars, tokens, tokenPrices, hist>>

OkuRouteQuote == OkuRouteQuoteUpTo(MaxExpired)

\* 502-504: the loop is over
OkuRouteEnd ==
    /\ rr["Oku"].pc = "loop"
    /\ rr["Oku"].k > Len(rr["Oku"].tokenPairs)
    /\ rr' = [rr EXCEPT !["Oku"].pc = "done"]
    /\ hist' = EndRun(hist, "Oku", rr["Oku"].answers, routes_cache)
    /\ UNCHANGED <<pureVars, slipVars, tokens, tokenPrices, routes_cache>>

RouteNext ==
    \/ LifiRouteStart \/ LifiRouteClear \/ LifiRouteProbe \/ LifiRouteEnd
    \/ OkuRouteStart \/ OkuRoutePair \/ OkuRouteUpdate \/ OkuRouteQuote \/ OkuRouteEnd

SpecRoutes == RouteInit /\ [][RouteNext]_vars

(***************************************************************************)
(* Specification SpecRoutesLive: the route fetch runs on a service that    *)
(* answers every request sooner or later and may report an order as        *)
(* completed or canceled any number of times.  A run is a chain of awaits  *)
(* on one event loop: a step that can be taken is taken.                   *)
(***************************************************************************)
RouteLiveNext ==
    \/ LifiRouteStart \/ LifiRouteClear \/ LifiRouteProbe \/ LifiRouteEnd
    \/ OkuRouteStart \/ OkuRoutePair \/ OkuRouteEnd
    \/ OkuRouteUpdateUpTo(MaxExpired + 1) \/ OkuRouteQuoteUpTo(MaxExpired + 1)

RouteRunStep ==
    \/ LifiRouteClear \/ LifiRouteProbe \/ LifiRouteEnd
    \/ OkuRoutePair \/ OkuRouteEnd
    \/ OkuRouteUpdateUpTo(MaxExpired + 1) \/ OkuRouteQuoteUpTo(MaxExpired + 1)

SpecRoutesLive == RouteInit /\ [][RouteLiveNext]_vars /\ WF_vars(RouteRunStep)

(***************************************************************************)
(* Table slippage_cache (types.ts 77-88, 116-120).  A row is [pair_from,   *)
(* pair_to, provider, amounts, calculation_timestamp]; amounts holds the   *)
(* amount_<usd> columns of the probed amounts, in the order of             *)
(* TEST_AMOUNTS.  id and last_updated are left out.                        *)
(***************************************************************************)
\* the runs probe the first NumAmounts of the four TEST_AMOUNTS
NumAmounts == 2
TEST_AMOUNTS == SubSeq(<<1000, 10000, 50000, 100000>>, 1, NumAmounts)

\* MAX_REQUESTS_PER_HOUR (slippageService.ts 471: 1000, okuSlippageService 21:
\* 500), scaled to the pairs and amounts of the model
MaxRequests == 3
MAX_REQUESTS_PER_HOUR == MaxRequests

\* a stored amount: a number (in thousandths of a percent), null, or one of
\* the non-finite values a REAL column holds
NullAmount == [kind |-> NULL, v |-> 0]
AmountOf(f, t) ==
    IF f = 0 THEN [kind |-> CalcSlippage(f, t), v |-> 0]
    ELSE [kind |-> "num", v |-> CalcSlippage(f, t)]

\* the LiFi INSERT (slippageService.ts 805-818) names no provider column: the
\* row gets the column's default
SlippageProviderDefault == "LiFi"

SlippageRow(from, to, provider, amounts, ts) ==
    [pair_from |-> from, pair_to |-> to, provider |-> provider, amounts |-> amounts,
     calculation_timestamp |-> ts]

(***************************************************************************)
(* Pairs of a slippage run (slippageService.ts 526-579, okuSlippageService *)
(* 177-231): the pairs of the cached routes, one direction each, or the    *)
(* fallback pairs.                                                         *)
(***************************************************************************)
PairBefore(a, b) == Rank(a[1]) < Rank(b[1]) \/ (a[1] = b[1] /\ Rank(a[2]) <= Rank(b[2]))

\* ORDER BY pair_from, pair_to
RECURSIVE SortedPairs(_)
SortedPairs(S) ==
    IF S = {} THEN <<>>
    ELSE LET m == CHOOSE x \in S : \A y \in S : PairBefore(x, y)
         IN  <<m>> \o SortedPairs(S \ {m})

\* the loop with uniquePairs.has(pairKey) as its only test
RECURSIVE DerivedFromOwnKey(_, _, _)
DerivedFromOwnKey(keys, toks, st) ==
    IF keys = <<>> THEN st.tokenPairs
    ELSE LET from == Head(keys)[1]
             to == Head(keys)[2]
         IN  IF <<from, to>> \in st.uniquePairs
             THEN DerivedFromOwnKey(Tail(keys), toks, st)
             ELSE DerivedFromOwnKey(Tail(keys), toks,
                     [uniquePairs |-> st.uniquePairs \cup {<<from, to>>},
                      tokenPairs |->
                          IF from \in SeqRange(toks) /\ to \in SeqRange(toks)
                          THEN Append(st.tokenPairs, [from |-> from, to |-> to])
                          ELSE st.tokenPairs])

\* existingRoutes.forEach: a pair is taken unless it or its reverse was seen
RECURSIVE DerivedFrom(_, _, _)
DerivedFrom(keys, toks, st) ==
    IF keys = <<>> THEN st.tokenPairs
    ELSE LET from == Head(keys)[1]
             to == Head(keys)[2]
         IN  IF <<from, to>> \in st.uniquePairs \/ <<to, from>> \in st.uniquePairs
             THEN DerivedFrom(Tail(keys), toks, st)
             ELSE DerivedFrom(Tail(keys), toks,
                     [uniquePairs |-> st.uniquePairs \cup {<<from, to>>},
                      tokenPairs |->
                          IF from \in SeqRange(toks) /\ to \in SeqRange(toks)
                          THEN Append(st.tokenPairs, [from |-> from, to |-> to])
                          ELSE st.tokenPairs])

fallbackPairs == << <<"USDC", "WETH">>, <<"USDC", "USDT">>, <<"WETH", "WBTC">> >>

\* the three pairs without the lookup in the registry
FallbackPairsUnfiltered(toks) ==
    [n \in 1..Len(fallbackPairs) |-> [from |-> fallbackPairs[n][1], to |-> fallbackPairs[n][2]]]

\* 562-579: the fallback pairs whose two tokens tokens.find() finds
FallbackPairs(toks) ==
    LET found == SelectSeq(fallbackPairs,
                           LAMBDA q : q[1] \in SeqRange(toks) /\ q[2] \in SeqRange(toks))
    IN  [n \in 1..Len(found) |-> [from |-> found[n][1], to |-> found[n][2]]]

\* a row met twice (once per provider) is skipped the second time, so the
\* distinct (pair_from, pair_to) of the rows decide the list
SlippagePairs(rows, toks) ==
    LET derived == DerivedFrom(SortedPairs({<<r.pair_from, r.pair_to>> : r \in rows}), toks,
                               [uniquePairs |-> {}, tokenPairs |-> <<>>])
    IN  IF derived = <<>> THEN FallbackPairs(toks) ELSE derived

\* SELECT routes_data FROM routes_cache [WHERE provider = 'Oku']
ExistingRoutes(p) ==
    IF p = "LiFi" THEN DOMAIN routes_cache
    ELSE {r \in DOMAIN routes_cache : r.provider = "Oku"}

(***************************************************************************)
(* The slippage runs.  "LiFi" and "Oku" are the scheduled entry points     *)
(* fetchAndCacheSlippageData and fetchAndCacheOkuSlippageData,             *)
(* "LiFiManual" is manualSlippageCalculation.  "OkuManual" is              *)
(* manualOkuSlippageCalculation (okuSlippageService 711-724); it differs   *)
(* from "Oku" by the reset of the counter only and is started where two    *)
(* runs of the Oku service overlap.                                        *)
(***************************************************************************)
SlipRuns == {"LiFi", "LiFiManual", "Oku"}
SlipEntries == SlipRuns \cup {"OkuManual"}
ProviderOf(r) == IF r \in {"Oku", "OkuManual"} THEN "Oku" ELSE "LiFi"

\* slippage runs started in a behaviour
MaxSlipRuns == 2

\* the registry, the cached routes and the prices the slippage runs find
SlipTokens == <<"USDC", "USDT", "WETH">>
SlipRouteCaches ==
    {EmptyBag,
     SetToBag({RouteRow("USDC", "WETH", "LiFi", <<>>), RouteRow("WETH", "USDC", "LiFi", <<>>),
               RouteRow("USDT", "WETH", "Oku", << [name |-> "usor", mark |-> ""] >>)})}
TokenPrice == 2
SlipPrices == {[s \in S |-> TokenPrice] : S \in {SeqRange(SlipTokens), SeqRange(SlipTokens) \ {"USDC"}}}

\* the USD amounts of the route the LiFi service quotes
LifiQuote == [fromAmountUSD |-> 1000, toAmountUSD |-> 990]

\* the LiFi service answers the attempt-th request for the j-th amount
LifiScript(first, retry, rest) ==
    [x \in (1..NumAmounts) \X (1..2) |->
        IF x[1] = 1 THEN (IF x[2] = 1 THEN first ELSE retry) ELSE rest]
LifiUpstreams ==
    {LifiScript("routes", "routes", "routes"), LifiScript("429", "routes", "routes"),
     LifiScript("429", "error", "routes"), LifiScript("none", "none", "none"),
     LifiScript("routes", "routes", "error")}

\* inAmount and outAmount (in tokens) of a router's quote
OkuQuoteAmounts(router) ==
    IF router = "threeroute" THEN [inAmount |-> 500, outAmount |-> 495]
    ELSE [inAmount |-> 500, outAmount |-> 490]

\* calculation_timestamp IS NULL / latest_timestamp || null
NoTimestamp == 0

SlipIdle ==
    [pc |-> "idle", runs |-> 0, ts |-> NoTimestamp, tokenPairs |-> <<>>, k |-> 1, j |-> 1,
     slippageAmounts |-> <<>>, successCount |-> 0, errorCount |-> 0,
     currentOrderId |-> NoOrder, pairsProcessedWithCurrentOrder |-> 0,
     retry |-> 0, reqOrderId |-> NoOrder, resp |-> NULL, expired |-> 0, creates |-> 0,
     \* what the run has done so far
     started |-> 0,        \* pairs whose iteration passed the check at its top
     ceiling |-> FALSE,    \* a check found requestCount >= MAX_REQUESTS_PER_HOUR
     late |-> 0,           \* probes begun while requestCount was at the ceiling
     pairRequests |-> 0,   \* upstream requests sent for the current pair: 0, 1 or 2 (more)
     requests |-> 0,       \* upstream requests the run has sent, up to MaxRequests + 1
     bucketRequests |-> 0, \* LiFi requests sent for the amount last probed
     pairCounted |-> 0,    \* increments of requestCount for the current pair
     written |-> {},       \* rows the run has inserted
     faults |-> 0]         \* store statements of the run that failed

NoSlipRun == \A r \in SlipEntries : sr[r].pc \in {"idle", "done"}
SlipRunsStarted ==
    sr["LiFi"].runs + sr["LiFiManual"].runs + sr["Oku"].runs + sr["OkuManual"].runs

(***************************************************************************)
(* The synchronous stretches of a slippage run between two awaits, as      *)
(* operators on st = [f |-> the run's frame, rc |-> its requestCount].     *)
(***************************************************************************)
St(r) == [f |-> sr[r], rc |-> requestCount[ProviderOf(r)]]

\* one more upstream request for the current pair
Requested(n) == IF n >= 2 THEN 2 ELSE n + 1
\* one more upstream request of the run
Sent(n) == IF n > MAX_REQUESTS_PER_HOUR THEN n ELSE n + 1

RECURSIVE EnterBucket(_, _)
RECURSIVE SendProbe(_, _)

\* 628-655 / okuSlippageService 286-329 with the counter raised before the
\* price lookup
SendProbeCountFirst(st, p) ==
    LET f == [st.f EXCEPT !.pairCounted = @ + 1]
    IN  IF f.tokenPairs[f.k].from \notin DOMAIN tokenPrices
        THEN EnterBucket([f |-> [f EXCEPT !.j = @ + 1], rc |-> st.rc + 1], p)
        ELSE [f |-> [f EXCEPT !.pc = IF p = "LiFi" THEN "quote" ELSE "create"], rc |-> st.rc + 1]

\* 628-655 / okuSlippageService 286-329: the price lookup, then requestCount++
\* and the request (LiFi) or the order the request needs (Oku)
SendProbe(st, p) ==
    LET f == st.f
        rotate == f.currentOrderId = NoOrder
                  \/ f.pairsProcessedWithCurrentOrder >= ORDER_REFRESH_INTERVAL
    IN  IF f.tokenPairs[f.k].from \notin DOMAIN tokenPrices
        THEN EnterBucket([st EXCEPT !.f.j = @ + 1, !.f.bucketRequests = 0], p)
        ELSE LET g == [f EXCEPT !.pairCounted = @ + 1, !.retry = 0, !.resp = NULL,
                                !.bucketRequests = 0,
                                !.late = IF st.rc >= MAX_REQUESTS_PER_HOUR THEN @ + 1 ELSE @]
             IN  [f |-> CASE p = "LiFi" -> [g EXCEPT !.pc = "quote"]
                          [] p = "Oku" /\ rotate -> [g EXCEPT !.pc = "create"]
                          [] OTHER -> [g EXCEPT !.pc = "update", !.reqOrderId = g.currentOrderId],
                  rc |-> st.rc + 1]

\* 615-626 / okuSlippageService 273-284: the head of the loop over TEST_AMOUNTS
EnterBucketUnchecked(st, p) ==
    IF st.f.j > Len(TEST_AMOUNTS) THEN [st EXCEPT !.f.pc = "insert"]
    ELSE IF st.f.j > 1 THEN [st EXCEPT !.f.pc = "bucketDelay"]
    ELSE SendProbe(st, p)
EnterBucket(st, p) ==
    IF st.f.j > Len(TEST_AMOUNTS) THEN [st EXCEPT !.f.pc = "insert"]
    ELSE IF st.rc >= MAX_REQUESTS_PER_HOUR
         THEN [st EXCEPT !.f.pc = "insert", !.f.ceiling = TRUE]
    ELSE IF st.f.j > 1 THEN [st EXCEPT !.f.pc = "bucketDelay"]
    ELSE SendProbe(st, p)

\* slippageAmounts[amountUSD] = amount, and on to the next amount
NextBucket(st, p, amount) ==
    EnterBucket([st EXCEPT !.f.slippageAmounts[st.f.j] = amount, !.f.j = @ + 1,
                           !.f.retry = 0, !.f.reqOrderId = NoOrder, !.f.resp = NULL,
                           !.f.expired = 0, !.f.creates = 0], p)

\* 590-613 / okuSlippageService 249-271: the head of the loop over tokenPairs
EnterPair(st, p) ==
    IF st.f.k > Len(st.f.tokenPairs) THEN [st EXCEPT !.f.pc = "summary"]
    ELSE IF st.rc >= MAX_REQUESTS_PER_HOUR
         THEN [st EXCEPT !.f.pc = "summary", !.f.ceiling = TRUE]
    ELSE LET g == [st.f EXCEPT !.started = @ + 1, !.j = 1,
                               !.slippageAmounts = [b \in 1..Len(TEST_AMOUNTS) |-> NullAmount],
                               !.pairRequests = 0, !.pairCounted = 0, !.bucketRequests = 0]
         IN  IF g.k > 1 THEN [st EXCEPT !.f = [g EXCEPT !.pc = "pairDelay"]]
             ELSE EnterBucket([st EXCEPT !.f = g], p)

\* after the 5 s wait, the retry whatever the counter says
RetryAfterWaitUnchecked(st) ==
    [st EXCEPT !.rc = @ + 1, !.f.pc = "retryQuote", !.f.pairCounted = @ + 1]

\* 696-776: after the 5 s wait, one retry if the counter is below the ceiling
RetryAfterWait(st) ==
    IF st.rc < MAX_REQUESTS_PER_HOUR
    THEN [st EXCEPT !.rc = @ + 1, !.f.pc = "retryQuote", !.f.pairCounted = @ + 1,
                    !.f.late = IF st.rc >= MAX_REQUESTS_PER_HOUR THEN @ + 1 ELSE @]
    ELSE NextBucket([st EXCEPT !.f.ceiling = TRUE], "LiFi", NullAmount)

\* 682-692: the first route of the response
LifiAmount(answer) ==
    IF answer = "routes" THEN AmountOf(LifiQuote.fromAmountUSD, LifiQuote.toAmountUSD)
    ELSE NullAmount

\* okuSlippageService 488-548: the first eligible quote, priced in USD
OkuAmount(q, from, to) ==
    LET eligible == SelectSeq(q, LAMBDA e : e.st = "ok")
    IN  IF eligible = <<>> \/ to \notin DOMAIN tokenPrices THEN NullAmount
        ELSE LET bestQuote == OkuQuoteAmounts(eligible[1].router)
             IN  AmountOf(bestQuote.inAmount * tokenPrices[from],
                          bestQuote.outAmount * tokenPrices[to])

\* Object.values(slippageAmounts).some((amount) => amount !== null)
\* every() in place of some()
HasEveryAmount(amounts) == \A b \in 1..Len(amounts) : amounts[b] # NullAmount
HasSuccessfulAmounts(amounts) == \E b \in 1..Len(amounts) : amounts[b] # NullAmount

\* what a finished run leaves for the comparison with the next one
NoSlipRecord == [run |-> "none", rows |-> {}, faults |-> 0, ts |-> NoTimestamp]
SlipRecord(r, f) ==
    [run |-> r, rows |-> {<<w.pair_from, w.pair_to, w.amounts>> : w \in f.written},
     faults |-> f.faults, ts |-> f.ts]

\* slipHist follows the runs of the LiFi slippage service
Begin(r) ==
    IF ProviderOf(r) = "LiFi" THEN [prev |-> slipHist.last, last |-> NoSlipRecord]
    ELSE slipHist
End(h, r, f) == IF ProviderOf(r) = "LiFi" THEN [h EXCEPT !.last = SlipRecord(r, f)] ELSE h

\* the frame of a run that has returned: its order and its loop variables are gone
Returned(f) ==
    [SlipIdle EXCEPT !.pc = "done", !.runs = f.runs, !.ts = f.ts, !.tokenPairs = f.tokenPairs,
                     !.successCount = f.successCount, !.errorCount = f.errorCount,
                     !.started = f.started, !.ceiling = f.ceiling, !.late = f.late,
                     !.written = f.written, !.faults = f.faults]

Commit(r, st) ==
    /\ sr' = [sr EXCEPT ![r] = st.f]
    /\ requestCount' = [requestCount EXCEPT ![ProviderOf(r)] = st.rc]

\* the run returns; its awaits have taken time
Finish(r, f) ==
    /\ sr' = [sr EXCEPT ![r] = Returned(f)]
    /\ slipHist' = End(slipHist, r, f)
    /\ now' = IF now = f.ts THEN now + 1 ELSE now

(***************************************************************************)
(* fetchAndCacheSlippageData (slippageService.ts 508-887) and              *)
(* fetchAndCacheOkuSlippageData (okuSlippageService 160-647), one action   *)
(* per await.  tokens, prices and routes do not change during the slippage *)
(* runs, so the three reads at the start are one step.                     *)
(***************************************************************************)
\* 513-581 (and 950-954 for the manual entry): the timestamp, the reads and
\* the pair list; a failed read is caught at 884 and ends the run.  serial:
\* the trigger waits for the runs before it.
SlipStart(r, serial) ==
    /\ sr[r].pc \in {"idle", "done"}
    /\ serial => NoSlipRun
    /\ SlipRunsStarted < MaxSlipRuns
    /\ \E ok \in BOOLEAN :
          LET p == ProviderOf(r)
              gone == [q \in SlipEntries |->
                          IF sr[q].pc = "done" THEN [SlipIdle EXCEPT !.runs = sr[q].runs]
                          ELSE sr[q]]
              f == [SlipIdle EXCEPT !.runs = sr[r].runs + 1, !.ts = now]
          IN  /\ requestCount' = IF r \in {"LiFiManual", "OkuManual"}
                                 THEN [requestCount EXCEPT ![p] = 0]
                                 ELSE requestCount
              /\ IF ok
                 THEN /\ sr' = [gone EXCEPT ![r] =
                                   [f EXCEPT !.pc = "clear",
                                             !.tokenPairs = SlippagePairs(ExistingRoutes(p), tokens)]]
                      /\ slipHist' = Begin(r)
                      /\ UNCHANGED now
                 ELSE /\ sr' = [gone EXCEPT ![r] = Returned([f EXCEPT !.faults = 1])]
                      /\ slipHist' = End(Begin(r), r, [f EXCEPT !.faults = 1])
                      /\ now' = now + 1
    /\ UNCHANGED <<pureVars, routeVars, slippage_cache, rd, upstream>>

\* 583-584 / okuSlippageService 237-238: the DELETE, then the first pair
SlipClear(r) ==
    /\ sr[r].pc = "clear"
    /\ \E ok \in BOOLEAN :
          IF ok
          THEN /\ slippage_cache' =
                     IF ProviderOf(r) = "LiFi" THEN EmptyBag
                     ELSE DeleteRows(slippage_cache,
                                     {w \in DOMAIN slippage_cache : w.provider = "Oku"})
               /\ Commit(r, EnterPair(St(r), ProviderOf(r)))
               /\ UNCHANGED <<now, slipHist>>
          ELSE /\ Finish(r, [sr[r] EXCEPT !.faults = @ + 1])
               /\ UNCHANGED <<slippage_cache, requestCount>>
    /\ UNCHANGED <<pureVars, routeVars, rd, upstream>>

\* 601-604: the delay between two pairs is over
SlipPairDelay(r) ==
    /\ sr[r].pc = "pairDelay"
    /\ Commit(r, EnterBucket(St(r), ProviderOf(r)))
    /\ UNCHANGED <<pureVars, routeVars, slippage_cache, now, rd, upstream, slipHist>>

\* 624-627: the delay between two amounts is over
SlipBucketDelay(r) ==
    /\ sr[r].pc = "bucketDelay"
    /\ Commit(r, SendProbe(St(r), ProviderOf(r)))
    /\ UNCHANGED <<pureVars, routeVars, slippage_cache, now, rd, upstream, slipHist>>

\* 665-695, 777-800: POST /v1/advanced/routes and its response
LifiSlipQuote(r) ==
    /\ sr[r].pc = "quote" /\ ProviderOf(r) = "LiFi"
    /\ LET st == [St(r) EXCEPT !.f.pairRequests = Requested(@), !.f.requests = Sent(@),
                                !.f.bucketRequests = CountUpTo(@, 3)]
           answer == upstream.lifi[<<st.f.j, 1>>]
       IN  Commit(r, IF answer = "429" THEN [st EXCEPT !.f.pc = "retryWait"]
                     ELSE NextBucket(st, "LiFi", LifiAmount(answer)))
    /\ UNCHANGED <<pureVars, routeVars, slippage_cache, now, rd, upstream, slipHist>>

\* 700-705: the 5 s wait after a 429 is over
LifiSlipRetry(r) ==
    /\ sr[r].pc = "retryWait"
    /\ Commit(r, RetryAfterWait(St(r)))
    /\ UNCHANGED <<pureVars, routeVars, slippage_cache, now, rd, upstream, slipHist>>

\* 735-772: the retried request and its response
LifiSlipRetryQuote(r) ==
    /\ sr[r].pc = "retryQuote"
    /\ LET st == [St(r) EXCEPT !.f.pairRequests = Requested(@), !.f.requests = Sent(@),
                                !.f.bucketRequests = CountUpTo(@, 3)]
       IN  Commit(r, NextBucket(st, "LiFi", LifiAmount(upstream.lifi[<<st.f.j, 2>>])))
    /\ UNCHANGED <<pureVars, routeVars, slippage_cache, now, rd, upstream, slipHist>>

\* okuSlippageService 316-329: createOkuOrderForSlippage; a failure is caught
\* at 552 and leaves the amount null
OkuSlipCreate(r) ==
    /\ sr[r].pc = "create"
    /\ \E created \in BOOLEAN :
          LET st == [St(r) EXCEPT !.f.pairRequests = Requested(@), !.f.requests = Sent(@), !.f.creates = @ + 1]
          IN  Commit(r, IF created
                        THEN [st EXCEPT !.f.currentOrderId = NewOrderId(St(r).f),
                                        !.f.pairsProcessedWithCurrentOrder = 0,
                                        !.f.reqOrderId = NewOrderId(St(r).f),
                                        !.f.pc = "update"]
                        ELSE NextBucket(st, "Oku", NullAmount))
    /\ UNCHANGED <<pureVars, routeVars, slippage_cache, now, rd, upstream, slipHist>>

\* the handler of "order already completed or canceled" in a slippage probe
\* (okuSlippageService 363-384, 453-474): the request and the Create it sends
OkuSlipExpired(st, created) ==
    IF created
    THEN [st EXCEPT !.f = [OkuRecreate(st.f, NewOrderId(st.f)) EXCEPT !.pairRequests = Requested(Requested(@)),
                                                         !.requests = Sent(Sent(@))]]
    ELSE NextBucket([st EXCEPT !.f.pairRequests = Requested(Requested(@)),
                               !.f.requests = Sent(Sent(@)), !.f.expired = @ + 1,
                               !.f.creates = @ + 1, !.f.resp = "createFailed"],
                    "Oku", NullAmount)

\* okuSlippageService 347-400: one UpdateQuoteParams request and its response
OkuSlipUpdate(r) ==
    /\ sr[r].pc = "update"
    /\ \E a \in upstream.update, created \in BOOLEAN :
          /\ a # "expired" => created
          /\ a = "expired" => sr[r].expired < MaxExpired
          /\ LET st == St(r)
                 sent == [st EXCEPT !.f.pairRequests = Requested(@), !.f.requests = Sent(@), !.f.resp = a]
             IN  Commit(r,
                    CASE a = "ok" ->
                           [sent EXCEPT !.f.pc = "quote", !.f.retry = 0,
                                        !.f.reqOrderId = st.f.currentOrderId]
                      [] a = "expired" -> OkuSlipExpired(st, created)
                      [] a = "error" /\ UpdateRetryLeft(st.f.retry) ->
                           [sent EXCEPT !.f.retry = @ + 1]
                      [] OTHER -> NextBucket(sent, "Oku", NullAmount))
    /\ UNCHANGED <<pureVars, routeVars, slippage_cache, now, rd, upstream, slipHist>>

\* okuSlippageService 416-486, 488-551: one GetNewQuotes request and its
\* response; the quotes of the last response are evaluated
OkuSlipQuote(r) ==
    /\ sr[r].pc = "quote" /\ ProviderOf(r) = "Oku"
    /\ \E a \in upstream.quote, created \in BOOLEAN :
          /\ a.kind # "expired" => created
          /\ a.kind = "expired" => sr[r].expired < MaxExpired
          /\ LET st == St(r)
                 pair == st.f.tokenPairs[st.f.k]
                 sent == [st EXCEPT !.f.pairRequests = Requested(@), !.f.requests = Sent(@), !.f.resp = a.kind]
                 evaluated == a.kind = "quotes"
                              /\ (HasFetchedQuotes(a.quotes) \/ ~QuoteRetryLeft(st.f.retry))
             IN  Commit(r,
                    CASE evaluated ->
                           NextBucket([sent EXCEPT !.f.pairsProcessedWithCurrentOrder = @ + 1],
                                      "Oku", OkuAmount(a.quotes, pair.from, pair.to))
                      [] a.kind = "quotes" /\ ~evaluated -> [sent EXCEPT !.f.retry = @ + 1]
                      [] a.kind = "expired" -> OkuSlipExpired(st, created)
                      [] a.kind = "error" /\ QuoteRetryLeft(st.f.retry) ->
                           [sent EXCEPT !.f.retry = @ + 1]
                      [] OTHER -> NextBucket(sent, "Oku", NullAmount))
    /\ UNCHANGED <<pureVars, routeVars, slippage_cache, now, rd, upstream, slipHist>>

\* 804-855 / okuSlippageService 562-614: the INSERT of the pair's row and the
\* counting; a failed INSERT is caught at 848: errorCount++
SlipInsert(r) ==
    /\ sr[r].pc = "insert"
    /\ \E stored \in BOOLEAN :
          LET st == St(r)
              f == st.f
              p == ProviderOf(r)
              row == SlippageRow(f.tokenPairs[f.k].from, f.tokenPairs[f.k].to,
                                 IF p = "LiFi" THEN SlippageProviderDefault ELSE "Oku",
                                 f.slippageAmounts, f.ts)
              g == IF ~stored THEN [f EXCEPT !.errorCount = @ + 1, !.faults = @ + 1]
                   ELSE IF HasSuccessfulAmounts(f.slippageAmounts)
                        THEN [f EXCEPT !.successCount = @ + 1, !.written = @ \cup {row}]
                        ELSE [f EXCEPT !.errorCount = @ + 1, !.written = @ \cup {row}]
          IN  /\ slippage_cache' = IF stored THEN InsertRow(slippage_cache, row)
                                   ELSE slippage_cache
              /\ Commit(r, EnterPair([st EXCEPT !.f = [g EXCEPT !.k = @ + 1]], p))
    /\ UNCHANGED <<pureVars, routeVars, now, rd, upstream, slipHist>>

\* 857-883: the summary query and the log lines; the run returns
SlipSummary(r) ==
    /\ sr[r].pc = "summary"
    /\ Finish(r, sr[r])
    /\ UNCHANGED <<pureVars, routeVars, slippage_cache, requestCount, rd, upstream>>

\* time passes while a run is under way
SlipTick ==
    /\ \E r \in SlipEntries : sr[r].pc \notin {"idle", "done"} /\ sr[r].ts = now
    /\ now' = now + 1
    /\ UNCHANGED <<pureVars, routeVars, slippage_cache, requestCount, sr, rd, upstream, slipHist>>

(***************************************************************************)
(* getCachedSlippageData (slippageService.ts 889-947) and                  *)
(* getCachedOkuSlippageData (okuSlippageService 649-708).                  *)
(***************************************************************************)
RdIdle ==
    [pc |-> "idle", provider |-> "none", latestTimestamp |-> NoTimestamp,
     slippageData |-> EmptyBag, calculationTimestamp |-> NoTimestamp]

\* the rows a reader's queries see: all of them, or provider = 'Oku'
Visible(table, p) ==
    IF p = "LiFi" THEN DOMAIN table ELSE {w \in DOMAIN table : w.provider = "Oku"}

\* SELECT MAX(calculation_timestamp)
MaxTimestamp(S) ==
    CHOOSE t \in {w.calculation_timestamp : w \in S} :
        \A w \in S : w.calculation_timestamp <= t

\* SELECT ... FROM slippage_cache with no WHERE on the timestamp
AllRows(table, latest, p) == [w \in Visible(table, p) |-> table[w]]
\* SELECT ... WHERE calculation_timestamp = $1 [AND provider = 'Oku']
LatestRows(table, latest, p) ==
    [w \in {x \in Visible(table, p) : x.calculation_timestamp = latest} |-> table[w]]

\* 896-910: the first query; no timestamp, or an error caught at 943, returns
\* the empty result
ReadLatest ==
    /\ rd.pc \in {"idle", "returned"}
    /\ \E p \in Providers, ok \in BOOLEAN :
          rd' = IF ok /\ Visible(slippage_cache, p) # {}
                THEN [RdIdle EXCEPT !.pc = "rows", !.provider = p,
                                    !.latestTimestamp =
                                        MaxTimestamp(Visible(slippage_cache, p))]
                ELSE [RdIdle EXCEPT !.pc = "returned", !.provider = p]
    /\ UNCHANGED <<pureVars, routeVars, slippage_cache, requestCount, now, sr, upstream, slipHist>>

\* 912-942: the rows of the latest timestamp (and their MAX(last_updated))
ReadRows ==
    /\ rd.pc = "rows"
    /\ \E ok \in BOOLEAN :
          rd' = IF ok
                THEN [rd EXCEPT !.pc = "returned",
                                !.slippageData =
                                    LatestRows(slippage_cache, rd.latestTimestamp, rd.provider),
                                !.calculationTimestamp = rd.latestTimestamp]
                ELSE [RdIdle EXCEPT !.pc = "returned", !.provider = rd.provider]
    /\ UNCHANGED <<pureVars, routeVars, slippage_cache, requestCount, now, sr, upstream, slipHist>>

\* GET /slippage and /slippage/oku (server.ts 148-203, 254-271): the handler
\* has sent what the read returned
ReadReturn ==
    /\ rd.pc = "returned"
    /\ rd' = RdIdle
    /\ UNCHANGED <<pureVars, routeVars, slippage_cache, requestCount, now, sr, upstream, slipHist>>

(***************************************************************************)
(* Specification SpecSlip: slippage runs one after the other.              *)
(* Specification SpecSlipOverlap: runs that overlap (the schedule starts   *)
(* both providers' runs together; a manual run can start at any time) and  *)
(* readers in between.                                                     *)
(***************************************************************************)
SlipInit(caches, prices, scripts, updates, quotes) ==
    /\ enum = NULL /\ calc = NULL /\ srv = NULL /\ rr = NULL /\ hist = NULL
    /\ tokens = SlipTokens
    /\ tokenPrices \in prices
    /\ routes_cache \in caches
    /\ slippage_cache = EmptyBag
    /\ requestCount = [p \in Providers |-> 0]
    /\ now = 1
    /\ sr = [r \in SlipEntries |-> SlipIdle]
    /\ rd = RdIdle
    /\ upstream \in {[lifi |-> s, update |-> updates, quote |-> quotes] : s \in scripts}
    /\ slipHist = [prev |-> NoSlipRecord, last |-> NoSlipRecord]

SlipStep(r) ==
    \/ SlipClear(r) \/ SlipPairDelay(r) \/ SlipBucketDelay(r)
    \/ LifiSlipQuote(r) \/ LifiSlipRetry(r) \/ LifiSlipRetryQuote(r)
    \/ OkuSlipCreate(r) \/ OkuSlipUpdate(r) \/ OkuSlipQuote(r)
    \/ SlipInsert(r) \/ SlipSummary(r)

SlipSerialInit ==
    SlipInit(SlipRouteCaches, SlipPrices, LifiUpstreams, {"ok", "error", "expired"},
             {[kind |-> "quotes", quotes |-> q] : q \in QuoteAnswers} \cup
             {[kind |-> "expired", quotes |-> <<>>]})
SlipSerialNext == \E r \in SlipRuns : SlipStart(r, TRUE) \/ SlipStep(r)
SpecSlip == SlipSerialInit /\ [][SlipSerialNext]_vars

\* the overlapping runs find two pairs each, on a service that answers a
\* first request with 429 (LiFi) or with two fetched quotes (Oku)
OverlapRouteCache ==
    SetToBag({RouteRow("USDC", "WETH", "LiFi", <<>>),
              RouteRow("USDT", "WETH", "Oku", << [name |-> "usor", mark |-> ""] >>),
              RouteRow("WETH", "USDC", "Oku", << [name |-> "usor", mark |-> ""] >>)})
SlipOverlapInit ==
    SlipInit({OverlapRouteCache}, {[s \in SeqRange(SlipTokens) |-> TokenPrice]},
             {LifiScript("429", "routes", "routes")}, {"ok"},
             {[kind |-> "quotes",
               quotes |-> << [router |-> Routers[1], st |-> "ok"],
                             [router |-> Routers[2], st |-> "simFailed"] >>]})
SlipOverlapNext ==
    \/ \E r \in SlipRuns : SlipStart(r, FALSE) \/ SlipStep(r)
    \/ SlipTick \/ ReadLatest \/ ReadRows
SpecSlipOverlap == SlipOverlapInit /\ [][SlipOverlapNext]_vars

\* Specification SpecSlipRetry: a scheduled and a manual run of the LiFi
\* slippage service that overlap, on a service that answers the first
\* request for the first amount with 429
LifiSlipStep(r) ==
    \/ SlipClear(r) \/ SlipPairDelay(r) \/ SlipBucketDelay(r)
    \/ LifiSlipQuote(r) \/ LifiSlipRetry(r) \/ LifiSlipRetryQuote(r)
    \/ SlipInsert(r) \/ SlipSummary(r)
LifiEntries == {"LiFi", "LiFiManual"}
SlipRetryInit ==
    SlipInit({OverlapRouteCache}, {[s \in SeqRange(SlipTokens) |-> TokenPrice]},
             {LifiScript("429", "routes", "routes"), LifiScript("429", "error", "routes"),
              LifiScript("429", "429", "routes")},
             {"ok"}, {[kind |-> "expired", quotes |-> <<>>]})
SlipRetryNext ==
    \/ \E r \in LifiEntries : SlipStart(r, FALSE) \/ LifiSlipStep(r)
    \/ SlipTick
SpecSlipRetry == SlipRetryInit /\ [][SlipRetryNext]_vars

\* Specification SpecSlipSame: a scheduled and a manual run of the Oku
\* slippage service that overlap
OkuSlipStep(r) ==
    \/ SlipClear(r) \/ SlipPairDelay(r) \/ SlipBucketDelay(r)
    \/ OkuSlipCreate(r) \/ OkuSlipUpdate(r) \/ OkuSlipQuote(r)
    \/ SlipInsert(r) \/ SlipSummary(r)
SlipSameInit ==
    SlipInit({OverlapRouteCache}, {[s \in SeqRange(SlipTokens) |-> TokenPrice]},
             {LifiScript("routes", "routes", "routes")}, {"ok"},
             {[kind |-> "quotes",
               quotes |-> << [router |-> Routers[1], st |-> "ok"],
                             [router |-> Routers[2], st |-> "simFailed"] >>]})
SlipSameNext ==
    \/ \E r \in {"Oku", "OkuManual"} : SlipStart(r, FALSE) \/ OkuSlipStep(r)
    \/ SlipTick
SpecSlipSame == SlipSameInit /\ [][SlipSameNext]_vars

\* Specification SpecSlipRead: runs one after the other, and reads of the
\* cache while no run is under way (no run starts during a read)
SlipReadInit ==
    SlipInit({OverlapRouteCache}, {[s \in SeqRange(SlipTokens) |-> TokenPrice]},
             {LifiScript("429", "routes", "routes")}, {"ok"},
             {[kind |-> "quotes",
               quotes |-> << [router |-> Routers[1], st |-> "ok"],
                             [router |-> Routers[2], st |-> "simFailed"] >>]})
SlipReadNext ==
    \/ \E r \in SlipRuns : (rd.pc = "idle" /\ SlipStart(r, TRUE)) \/ SlipStep(r)
    \/ (NoSlipRun /\ ReadLatest) \/ ReadRows \/ ReadReturn
SpecSlipRead == SlipReadInit /\ [][SlipReadNext]_vars

(***************************************************************************)
(* Specification SpecServer: the start of the process and the first firing *)
(* of the daily schedule (server.ts 34-85).  The module's top level starts *)
(* two async functions, one after the other, each running up to its first  *)
(* await: the setup (runMigrations, upsertTokens) and the initial data     *)
(* fetch.  The two cron callbacks fire at 00:00 UTC.  A pipeline run is    *)
(* followed through its reads of tokens and routes_cache and its writes of  *)
(* routes_cache; what the upstream services answer and the rows of          *)
(* slippage_cache are the matter of the specifications above.               *)
(***************************************************************************)
Callers == {"startup", "cronRoutes", "cronSlippage"}
RoutePipelines == <<"fetchAndCacheLiFiData", "fetchAndCacheOkuData">>
SlippagePipelines == <<"fetchAndCacheSlippageData", "fetchAndCacheOkuSlippageData">>
Pipelines == SeqRange(RoutePipelines) \cup SeqRange(SlippagePipelines)
RunIds == Callers \X Pipelines

\* the provider whose rows a pipeline writes (routes) or reads (slippage)
PipelineProvider(fn) ==
    IF fn \in {"fetchAndCacheLiFiData", "fetchAndCacheSlippageData"} THEN "LiFi" ELSE "Oku"

\* process.env.FETCH_ROUTES_ON_STARTUP === "true", FETCH_SLIPPAGE_ON_STARTUP likewise
EnvValues == {"true", "false", "1"}
Environments == [FETCH_ROUTES_ON_STARTUP : EnvValues, FETCH_SLIPPAGE_ON_STARTUP : EnvValues]

\* 45-71: the calls of the initial data fetch, in order, each awaited
StartupCalls(env) ==
    (IF env.FETCH_ROUTES_ON_STARTUP = "true" THEN RoutePipelines ELSE <<>>)
    \o (IF env.FETCH_SLIPPAGE_ON_STARTUP = "true" THEN SlippagePipelines ELSE <<>>)

\* the calls of a caller; the slippage callback of the schedule awaits none
CallsOf(c, env) ==
    CASE c = "startup" -> StartupCalls(env)
      [] c = "cronRoutes" -> RoutePipelines
      [] OTHER -> SlippagePipelines

RunIdle == [pc |-> "idle", tokens |-> <<>>, tokenPairs |-> <<>>, k |-> 1]

\* the caller does not wait for the run
NotAwaited(s, id) == TRUE

\* await fetchAndCache...(): the caller resumes when the run has returned
\* (the runs catch what they throw, so the promise is never rejected)
Awaited(s, id) == s.run[id].pc = "done"

\* caller c makes its n-th call: the pipeline runs up to its first await, the
\* query on the tokens table; after its last call the caller is finished
Called(s, c, n) ==
    IF n > Len(CallsOf(c, s.env)) THEN [s EXCEPT !.at[c] = n]
    ELSE [s EXCEPT !.at[c] = n,
                   !.run[<<c, CallsOf(c, s.env)[n]>>] = [RunIdle EXCEPT !.pc = "tokens"]]

\* the database the process finds: a new one, or the one an earlier process
\* has migrated and filled
Databases == {[schema |-> FALSE, tokens |-> <<>>], [schema |-> TRUE, tokens |-> RunTokens]}

ServerInit ==
    /\ enum = NULL /\ calc = NULL /\ rr = NULL /\ hist = NULL
    /\ slippage_cache = EmptyBag /\ requestCount = NULL /\ now = 0
    /\ sr = NULL /\ rd = NULL /\ upstream = NULL /\ slipHist = NULL
    /\ tokenPrices = [s \in SeqRange(RunTokens) |-> TokenPrice]
    /\ routes_cache = EmptyBag
    /\ \E db \in Databases, env \in Environments :
          /\ tokens = db.tokens
          /\ srv = Called([env |-> env, schema |-> db.schema, setup |-> "runMigrations",
                           at |-> [c \in Callers |-> 0],
                           run |-> [id \in RunIds |-> RunIdle]],
                          "startup", 1)

\* process.exit(1) at 41 ends everything
Alive == srv.setup # "exit"

\* 37: await runMigrations() (types.ts 54-133): CREATE TABLE IF NOT EXISTS ...
RunMigrations ==
    /\ Alive /\ srv.setup = "runMigrations"
    /\ \E ok \in BOOLEAN :
          srv' = IF ok THEN [srv EXCEPT !.schema = TRUE, !.setup = "upsertTokens"]
                 ELSE [srv EXCEPT !.setup = "exit"]
    /\ UNCHANGED <<enum, calc, routeVars, slipVars>>

\* 38: await upsertTokens() (tokens.ts 29-55): a row for every token of TOKENS
UpsertTokens ==
    /\ Alive /\ srv.setup = "upsertTokens"
    /\ \E ok \in BOOLEAN :
          IF ok THEN /\ tokens' = RunTokens
                     /\ srv' = [srv EXCEPT !.setup = "done"]
          ELSE /\ srv' = [srv EXCEPT !.setup = "exit"]
               /\ UNCHANGED tokens
    /\ UNCHANGED <<enum, calc, tokenPrices, routes_cache, rr, hist, slipVars>>

\* 54-55, 64-65, 76-77: the awaited call has returned, the caller goes on
CallerResumes(c) ==
    /\ Alive /\ c \in {"startup", "cronRoutes"}
    /\ srv.at[c] \in 1..Len(CallsOf(c, srv.env))
    /\ Awaited(srv, <<c, CallsOf(c, srv.env)[srv.at[c]]>>)
    /\ srv' = Called(srv, c, srv.at[c] + 1)
    /\ UNCHANGED <<enum, calc, routeVars, slipVars>>

\* 74-78: the routes callback of the schedule fires
CronRoutes ==
    /\ Alive /\ srv.at["cronRoutes"] = 0
    /\ srv' = Called(srv, "cronRoutes", 1)
    /\ UNCHANGED <<enum, calc, routeVars, slipVars>>

\* 81-85: the slippage callback of the schedule fires: two calls, no await
CronSlippage ==
    /\ Alive /\ srv.at["cronSlippage"] = 0
    /\ srv' = Called(Called(srv, "cronSlippage", 1), "cronSlippage", 2)
    /\ UNCHANGED <<enum, calc, routeVars, slipVars>>

\* the first query of every pipeline: SELECT ... FROM tokens ORDER BY symbol
\* (lifiService.ts 10-13, okuService.ts 165-168, slippageService.ts 517-520,
\* okuSlippageService 169-172); without the table the query is rejected and
\* the catch at the end of the function ends the run
RunReadsTokens(id) ==
    /\ Alive /\ srv.run[id].pc = "tokens"
    /\ srv' = [srv EXCEPT !.run[id] =
                  IF ~srv.schema THEN [@ EXCEPT !.pc = "done"]
                  ELSE [@ EXCEPT !.tokens = tokens,
                                 !.tokenPairs = IF id[2] \in SeqRange(RoutePipelines)
                                                THEN ExhaustivePairs(tokens) ELSE <<>>,
                                 !.pc = CASE id[2] = "fetchAndCacheLiFiData" -> "clear"
                                          [] id[2] = "fetchAndCacheOkuData" -> "probe"
                                          [] OTHER -> "routes"]]
    /\ UNCHANGED <<enum, calc, routeVars, slipVars>>

\* lifiService.ts 43-44: DELETE FROM routes_cache
RunClearsRoutes(id) ==
    /\ Alive /\ srv.run[id].pc = "clear"
    /\ routes_cache' = EmptyBag
    /\ srv' = [srv EXCEPT !.run[id].pc = "probe"]
    /\ UNCHANGED <<enum, calc, tokens, tokenPrices, rr, hist, slipVars>>

\* the venues a provider reports for a pair in these runs
ServerDexes(p) == IF p = "LiFi" THEN <<>> ELSE << [name |-> "usor", mark |-> ""] >>

\* lifiService.ts 51-102, okuService.ts 211-499: the probe of one pair and
\* the upsert of its row; after the last pair the run returns
RunProbesRoute(id) ==
    /\ Alive /\ srv.run[id].pc = "probe" /\ id[2] \in SeqRange(RoutePipelines)
    /\ LET f == srv.run[id]
           p == PipelineProvider(id[2])
       IN  IF f.k > Len(f.tokenPairs)
           THEN /\ srv' = [srv EXCEPT !.run[id] = [RunIdle EXCEPT !.pc = "done"]]
                /\ UNCHANGED routes_cache
           ELSE /\ srv' = [srv EXCEPT !.run[id].k = @ + 1]
                /\ routes_cache' =
                      UpsertRoute(routes_cache,
                                  RouteRow(f.tokenPairs[f.k].from, f.tokenPairs[f.k].to,
                                           p, ServerDexes(p)))
    /\ UNCHANGED <<enum, calc, tokens, tokenPrices, rr, hist, slipVars>>

\* slippageService.ts 525-581, okuSlippageService 177-231: the query on
\* routes_cache and the pair list made of its rows
RunReadsRoutes(id) ==
    /\ Alive /\ srv.run[id].pc = "routes"
    /\ srv' = [srv EXCEPT !.run[id] =
                  [@ EXCEPT !.pc = "probe",
                            !.tokenPairs = SlippagePairs(ExistingRoutes(PipelineProvider(id[2])),
                                                         srv.run[id].tokens)]]
    /\ UNCHANGED <<enum, calc, routeVars, slipVars>>

\* slippageService.ts 583-887: the DELETE, the probes and the inserts of a
\* slippage run, up to its return
RunProbesSlippage(id) ==
    /\ Alive /\ srv.run[id].pc = "probe" /\ id[2] \in SeqRange(SlippagePipelines)
    /\ srv' = [srv EXCEPT !.run[id] = [RunIdle EXCEPT !.pc = "done"]]
    /\ UNCHANGED <<enum, calc, routeVars, slipVars>>

ServerNext ==
    \/ RunMigrations \/ UpsertTokens
    \/ CronRoutes \/ CronSlippage
    \/ \E c \in Callers : CallerResumes(c)
    \/ \E id \in RunIds :
          \/ RunReadsTokens(id) \/ RunClearsRoutes(id) \/ RunProbesRoute(id)
          \/ RunReadsRoutes(id) \/ RunProbesSlippage(id)

SpecServer == ServerInit /\ [][ServerNext]_vars

(***************************************************************************)
(* Specification SpecRoutesGet: GET /routes (server.ts 114-145) on a cache *)
(* the route fetches have left.  srv is the frame of the handler.          *)
(* last_updated is not part of the modelled rows, so the lastUpdated       *)
(* fields of the response are left out.                                    *)
(***************************************************************************)
\* the rows of S in the order of ORDER BY pair_from, pair_to (rows of one
\* pair come in an order the query does not fix)
RECURSIVE RowsInOrder(_)
RowsInOrder(S) ==
    IF S = {} THEN <<>>
    ELSE LET m == CHOOSE x \in S :
                     \A y \in S : PairBefore(<<x.pair_from, x.pair_to>>, <<y.pair_from, y.pair_to>>)
         IN  <<m>> \o RowsInOrder(S \ {m})

\* routesResult.rows.map((row) => JSON.parse(row.routes_data))
RoutesData(rows) == [n \in 1..Len(rows) |-> rows[n].routes_data]

\* lifiService.ts 119-121: SELECT routes_data FROM routes_cache ORDER BY ...
CachedRoutesRows == DOMAIN routes_cache
\* okuService.ts 517-519: ... WHERE provider = 'Oku' ORDER BY ...
CachedOkuRoutesRows == {r \in DOMAIN routes_cache : r.provider = "Oku"}

\* server.ts 122-141: the body of the response
RoutesResponse(lifiRoutes, okuRoutes) ==
    [status |-> 200, routes |-> lifiRoutes \o okuRoutes,
     count |-> Len(lifiRoutes \o okuRoutes),
     providers |-> [lifi |-> [count |-> Len(lifiRoutes)], oku |-> [count |-> Len(okuRoutes)]]]

GetIdle == [pc |-> "idle", lifiRoutes |-> <<>>, okuRoutes |-> <<>>, response |-> NULL,
            failed |-> FALSE]

\* the caches GET /routes is asked about: any rows of the two providers for
\* the pairs of the registry, one row at most per pair and provider
GetCaches ==
    {SetToBag(S) :
        S \in SUBSET {RouteRow(ExhaustivePairs(RunTokens)[n].from, ExhaustivePairs(RunTokens)[n].to,
                               p, ServerDexes(p)) :
                         n \in 1..Len(ExhaustivePairs(RunTokens)), p \in Providers}}

RoutesGetInit ==
    /\ enum = NULL /\ calc = NULL /\ rr = NULL /\ hist = NULL
    /\ slippage_cache = EmptyBag /\ requestCount = NULL /\ now = 0
    /\ sr = NULL /\ rd = NULL /\ upstream = NULL /\ slipHist = NULL
    /\ tokens = RunTokens
    /\ tokenPrices = [s \in SeqRange(RunTokens) |-> TokenPrice]
    /\ routes_cache \in GetCaches
    /\ srv = GetIdle

\* 114-117: the handler is called and calls getCachedRoutes
GetRoutes ==
    /\ srv.pc = "idle"
    /\ srv' = [srv EXCEPT !.pc = "getCachedRoutes"]
    /\ UNCHANGED <<enum, calc, routeVars, slipVars>>

\* lifiService.ts 112-136: the rows, or [] when a query is rejected
GetCachedRoutes ==
    /\ srv.pc = "getCachedRoutes"
    /\ \E ok \in BOOLEAN :
          srv' = [srv EXCEPT !.pc = "getCachedOkuRoutes",
                             !.failed = @ \/ ~ok,
                             !.lifiRoutes = IF ok THEN RoutesData(RowsInOrder(CachedRoutesRows))
                                            ELSE <<>>]
    /\ UNCHANGED <<enum, calc, routeVars, slipVars>>

\* okuService.ts 510-534: the rows of provider 'Oku', or [] when a query is
\* rejected
GetCachedOkuRoutes ==
    /\ srv.pc = "getCachedOkuRoutes"
    /\ \E ok \in BOOLEAN :
          srv' = [srv EXCEPT !.pc = "respond",
                             !.failed = @ \/ ~ok,
                             !.okuRoutes = IF ok THEN RoutesData(RowsInOrder(CachedOkuRoutesRows))
                                           ELSE <<>>]
    /\ UNCHANGED <<enum, calc, routeVars, slipVars>>

\* server.ts 122-141: res.json(...)
RoutesRespond ==
    /\ srv.pc = "respond"
    /\ srv' = [srv EXCEPT !.pc = "responded",
                          !.response = RoutesResponse(srv.lifiRoutes, srv.okuRoutes)]
    /\ UNCHANGED <<enum, calc, routeVars, slipVars>>

RoutesGetNext == GetRoutes \/ GetCachedRoutes \/ GetCachedOkuRoutes \/ RoutesRespond

SpecRoutesGet == RoutesGetInit /\ [][RoutesGetNext]_vars

(***************************************************************************)
(* Specification SpecOkuBest: the quote selection of the Oku slippage      *)
(* pipeline (okuSlippageService 488-536) on one GetNewQuotes response.     *)
(* Object.keys(quotes) walks the routers in the order the response has     *)
(* them, so the response is a sequence with the two routers in either      *)
(* order, each in any state.                                               *)
(***************************************************************************)
QuoteStates == {"ok", "simFailed", "noQuote", "notFetched", "error"}
QuotesObjects ==
    { << [router |-> o[1], st |-> a], [router |-> o[2], st |-> b] >> :
      o \in {Routers, << Routers[2], Routers[1] >>}, a \in QuoteStates, b \in QuoteStates }

OkuBestInit ==
    /\ tokens = SlipTokens
    /\ tokenPrices \in SlipPrices
    /\ calc \in {[quotes |-> q, from |-> f, to |-> t, slippage |-> NullAmount, done |-> FALSE] :
                 q \in QuotesObjects, f \in SeqRange(SlipTokens), t \in SeqRange(SlipTokens)}
    /\ calc.from # calc.to /\ calc.from \in DOMAIN tokenPrices
    /\ enum = NULL /\ rr = NULL /\ hist = NULL /\ routes_cache = EmptyBag
    /\ NoSlippage

\* 488-536: slippageAmounts[amountUSD.toString()] = ...
OkuSlipEvaluate ==
    /\ ~calc.done
    /\ calc' = [calc EXCEPT !.slippage = OkuAmount(calc.quotes, calc.from, calc.to),
                            !.done = TRUE]
    /\ UNCHANGED <<enum, srv, routeVars, slipVars>>

OkuBestNext == OkuSlipEvaluate

SpecOkuBest == OkuBestInit /\ [][OkuBestNext]_vars

(***************************************************************************)
(* Specification SpecQuery: one call of queryWithRetry (db.ts 37-57).  The *)
(* frame of the call is held in calc: the parameter maxRetries, the loop   *)
(* counter attempt, the number of times query() was run, the lines logged  *)
(* for the failed attempts, and what the call returned or threw.  The      *)
(* result of the query run in attempt a is QueryResult(a), so that two     *)
(* attempts never yield the same result.                                   *)
(***************************************************************************)
\* largest maxRetries a call is made with
MaxQueryRetries == 5
\* maxRetries: number = 3, what every caller uses
DefaultMaxRetries == 3

QueryErrors == {"ECONNREFUSED", "timeout"}
QueryResult(a) == [rows |-> a]
Undefined == "undefined"

QueryIdle(m) ==
    [pc |-> "loop", maxRetries |-> m, attempt |-> 1, queries |-> 0, log |-> <<>>,
     result |-> Undefined, thrown |-> NULL]

QueryInit ==
    /\ calc \in {QueryIdle(m) : m \in 1..MaxQueryRetries}
    /\ enum = NULL
    /\ tokens = <<>> /\ tokenPrices = <<>> /\ routes_cache = EmptyBag
    /\ rr = NULL /\ hist = NULL
    /\ NoSlippage

\* the attempt that throws goes on to the next one all the same
NeverLastAttempt(f) == FALSE

\* if (attempt === maxRetries)
LastAttempt(f) == f.attempt = f.maxRetries

\* 43-51: the loop condition, the query of this attempt, and the catch
QueryAttempt ==
    /\ calc.pc = "loop"
    /\ \E ok \in BOOLEAN, e \in QueryErrors :
          calc' = IF calc.attempt > calc.maxRetries
                  THEN [calc EXCEPT !.pc = "returned"]
                  ELSE IF ok
                  THEN [calc EXCEPT !.pc = "returned", !.queries = @ + 1,
                                    !.result = QueryResult(calc.attempt)]
                  ELSE LET failed == [calc EXCEPT !.queries = @ + 1,
                                                  !.log = Append(@, [attempt |-> calc.attempt,
                                                                     error |-> e])]
                       IN  IF LastAttempt(calc)
                           THEN [failed EXCEPT !.pc = "threw", !.thrown = e]
                           ELSE [failed EXCEPT !.pc = "wait"]
    /\ UNCHANGED <<enum, srv, routeVars, slipVars>>

\* 54-55: await setTimeout(delayMs * attempt), then attempt++
QueryDelay ==
    /\ calc.pc = "wait"
    /\ calc' = [calc EXCEPT !.pc = "loop", !.attempt = @ + 1]
    /\ UNCHANGED <<enum, srv, routeVars, slipVars>>

QueryNext == QueryAttempt \/ QueryDelay

SpecQuery == QueryInit /\ [][QueryNext]_vars

(***************************************************************************)
(* C1: after any sequence of route fetch runs of the two providers, in any *)
(* order, routes_cache never holds two rows with the same (pair_from,      *)
(* pair_to, provider).                                                     *)
(***************************************************************************)
C1_NoDuplicateRoute ==
    \A r \in DOMAIN routes_cache :
        CountRows(routes_cache, LAMBDA x : RouteKey(x) = RouteKey(r)) = 1

\* the second Oku run has replaced a row the first run left, with other routes_data
C1_Witness ==
    /\ rr["Oku"].runs = 2 /\ rr["Oku"].successCount >= 1
    /\ \E r \in DOMAIN routes_cache, o \in DOMAIN hist.prev.cache :
          /\ r.provider = "Oku" /\ RouteKey(r) = RouteKey(o) /\ r # o
          /\ r.routes_data.routes[1].dexes = rr["Oku"].answers[Len(rr["Oku"].answers)].dexes

(***************************************************************************)
(* C2: in every reachable state, also while a slippage run is between its  *)
(* DELETE and its INSERTs or two runs interleave, the list a call of       *)
(* getCachedSlippageData or getCachedOkuSlippageData returns holds only    *)
(* rows of one calculation_timestamp, the one returned as                  *)
(* calculationTimestamp.                                                   *)
(***************************************************************************)
C2_SingleTimestamp ==
    rd.pc = "returned" =>
        \A w \in DOMAIN rd.slippageData : w.calculation_timestamp = rd.calculationTimestamp

\* a read returned rows while a run was under way and the rows the reader
\* sees carried two timestamps
C2_Witness ==
    /\ rd.pc = "returned" /\ rd.slippageData # EmptyBag
    /\ ~NoSlipRun
    /\ \E w \in Visible(slippage_cache, rd.provider) :
          w.calculation_timestamp # rd.calculationTimestamp

(***************************************************************************)
(* C3 as stated: after a slippage run that no other run overlaps, every    *)
(* pair whose loop iteration was entered has exactly one row with the      *)
(* run's calculation_timestamp, never zero and never two.                  *)
(***************************************************************************)
RowsOfPair(r, n) ==
    CountRows(slippage_cache,
              LAMBDA w : /\ w.pair_from = sr[r].tokenPairs[n].from
                         /\ w.pair_to = sr[r].tokenPairs[n].to
                         /\ w.calculation_timestamp = sr[r].ts)

C3_ExactlyOneRow ==
    \A r \in SlipRuns :
        sr[r].pc = "done" => \A n \in 1..sr[r].started : RowsOfPair(r, n) = 1

(***************************************************************************)
(* C3, amended: after such a run every entered pair has at most one row    *)
(* with the run's calculation_timestamp: exactly one if the pair's INSERT  *)
(* succeeded, none if it failed (every entered pair reaches its INSERT).   *)
(***************************************************************************)
C3_OneRowIfInserted ==
    \A r \in SlipRuns :
        sr[r].pc = "done" =>
            /\ \A n \in 1..sr[r].started :
                   RowsOfPair(r, n) =
                       IF \E w \in sr[r].written :
                              /\ w.pair_from = sr[r].tokenPairs[n].from
                              /\ w.pair_to = sr[r].tokenPairs[n].to
                       THEN 1 ELSE 0
            /\ sr[r].started >= 1 => Cardinality(sr[r].written) + sr[r].faults = sr[r].started

\* a run entered two pairs; one INSERT succeeded and one failed
C3_Witness ==
    \E r \in SlipRuns :
        /\ sr[r].pc = "done" /\ sr[r].started = 2
        /\ sr[r].faults = 1 /\ Cardinality(sr[r].written) = 1

(***************************************************************************)
(* C4: two route fetch runs of one provider in succession, with the same   *)
(* answers for every pair (the upstream's and the store's) and the same    *)
(* tokens and prices, leave routes_cache with the same rows (pair_from,    *)
(* pair_to, provider, routes_data) after the second run as after the first.*)
(***************************************************************************)
C4_RouteFetchIdempotent ==
    (/\ hist.prev.provider # "none"
     /\ hist.last.provider = hist.prev.provider
     /\ hist.last.answers = hist.prev.answers)
    => hist.last.cache = hist.prev.cache

\* two Oku runs in succession with the same answers, each of which wrote a row
C4_Witness ==
    /\ hist.prev.provider = "Oku" /\ hist.last.provider = "Oku"
    /\ hist.last.answers = hist.prev.answers
    /\ \E n \in 1..Len(hist.last.answers) : hist.last.answers[n].dexes # <<>>
    /\ \E r \in DOMAIN hist.last.cache : r.provider = "Oku"

(***************************************************************************)
(* C8: in both slippage pipelines, while a pair whose source token has no  *)
(* price is processed, no upstream request is sent for it and requestCount *)
(* is not incremented for it, and every bucket of its row is null.         *)
(***************************************************************************)
MidPair == {"pairDelay", "bucketDelay", "quote", "retryWait", "retryQuote", "create",
            "update", "insert"}

C8_NoPriceNoRequest ==
    /\ \A r \in SlipRuns :
          (sr[r].pc \in MidPair /\ sr[r].tokenPairs[sr[r].k].from \notin DOMAIN tokenPrices)
          => /\ sr[r].pairRequests = 0 /\ sr[r].pairCounted = 0
             /\ \A b \in 1..Len(TEST_AMOUNTS) : sr[r].slippageAmounts[b] = NullAmount
    /\ \A w \in DOMAIN slippage_cache :
          w.pair_from \notin DOMAIN tokenPrices
          => \A b \in 1..Len(TEST_AMOUNTS) : w.amounts[b] = NullAmount

\* a LiFi run and then an Oku run have each written the row of a pair whose
\* source token has no price, and neither counter has moved
C8_Witness ==
    /\ \E w \in DOMAIN slippage_cache :
          w.provider = "LiFi" /\ w.pair_from \notin DOMAIN tokenPrices
    /\ \E w \in DOMAIN slippage_cache :
          w.provider = "Oku" /\ w.pair_from \notin DOMAIN tokenPrices
    /\ sr["Oku"].pc = "done" /\ sr["Oku"].started = 2
    /\ \A p \in Providers : requestCount[p] = 0

C5_RepeatedRunSameRows ==
    (/\ slipHist.prev.run = "LiFi" /\ slipHist.last.run = "LiFi"
     /\ slipHist.prev.faults = 0 /\ slipHist.last.faults = 0)
    => slipHist.last.rows = slipHist.prev.rows

(***************************************************************************)
(* C10: a slippage run (no other run overlapping it) that reaches the      *)
(* request ceiling begins no probe while requestCount is at the ceiling;   *)
(* when it ends, every row it inserted is in slippage_cache and            *)
(* successCount + errorCount is the number of pairs whose iteration was    *)
(* entered.                                                                *)
(***************************************************************************)
C10_CeilingKeepsRows ==
    \A r \in SlipRuns :
        /\ sr[r].late = 0
        /\ (sr[r].pc = "done" /\ sr[r].ceiling) =>
              /\ \A w \in sr[r].written : w \in DOMAIN slippage_cache
              /\ sr[r].successCount + sr[r].errorCount = sr[r].started

\* the run found the ceiling in its second pair of three amounts' worth of
\* requests: both rows are written, the second with a null bucket
C10_Witness ==
    \E r \in SlipRuns :
        /\ sr[r].pc = "done" /\ sr[r].ceiling /\ sr[r].started = 2
        /\ Cardinality(sr[r].written) = 2 /\ sr[r].successCount = 2
        /\ Len(sr[r].tokenPairs) = 2
        /\ \E w \in sr[r].written : w.amounts[Len(TEST_AMOUNTS)] = NullAmount

(***************************************************************************)
(* C6: for a registry of N tokens with distinct symbols the enumeration    *)
(* yields exactly N * (N - 1) pairs: every ordered pair (a, b) with a # b  *)
(* exactly once and no self-pair (20 pairs for N = 5).                     *)
(***************************************************************************)
C6_ExhaustivePairs ==
    enum.done =>
        LET n == Len(enum.tokens)
            tp == enum.tokenPairs
        IN  /\ Len(tp) = n * (n - 1)
            /\ n = 5 => Len(tp) = 20
            /\ \A k \in 1..Len(tp) : tp[k].from # tp[k].to
            /\ \A a \in SeqRange(enum.tokens), b \in SeqRange(enum.tokens) :
                   a # b => Cardinality({k \in 1..Len(tp) : tp[k] = [from |-> a, to |-> b]}) = 1
            \* the loop computes the tokenPairs the route fetch runs use
            /\ tp = ExhaustivePairs(enum.tokens)

C6_Witness == enum.done /\ Len(enum.tokens) = 5 /\ Len(enum.tokenPairs) = 20

(***************************************************************************)
(* C7: a quote with fromAmountUSD = f > 0 and toAmountUSD = t is stored as *)
(* ((f - t) / f) * 100 rounded to 3 decimals (the nearest thousandth, a    *)
(* tie upwards); f = 1000, t = 990 is stored as exactly 1.0.               *)
(***************************************************************************)
C7_SlippageValue ==
    (calc.done /\ calc.fromAmountUSD > 0) =>
        LET f == calc.fromAmountUSD
            t == calc.toAmountUSD
            s == calc.stored
        IN  /\ s \in Int
            \* |s/1000 - (f - t) * 100 / f| <= 1/2000, the tie resolved upwards
            /\ 2 * (f - t) * 100000 - f < 2 * s * f
            /\ 2 * s * f <= 2 * (f - t) * 100000 + f
            /\ (f = 1000 /\ t = 990) => s = 1000

C7_Witness ==
    calc.done /\ calc.fromAmountUSD = 1000 /\ calc.toAmountUSD = 990 /\ calc.stored = 1000

(***************************************************************************)
(* C11 as stated: the request counter of the LiFi slippage service never   *)
(* exceeds MAX_REQUESTS_PER_HOUR, also when a scheduled and a manually     *)
(* triggered run of fetchAndCacheSlippageData interleave at their awaits.  *)
(***************************************************************************)
C11_CounterWithinCeiling == requestCount["LiFi"] <= MAX_REQUESTS_PER_HOUR

(***************************************************************************)
(* C12 as stated: in the Oku route fetch a failure while one pair is       *)
(* handled (an exhausted update or quote retry, a failed order creation or *)
(* rotation for that pair) ends only that pair: a run that has enumerated  *)
(* its pairs ends only after every one of them was processed.              *)
(***************************************************************************)
C12_EveryPairProcessed ==
    rr["Oku"].pc = "done" => rr["Oku"].k > Len(rr["Oku"].tokenPairs)

(***************************************************************************)
(* C13 as stated: when a setup step of a route fetch fails (the tokens     *)
(* read or the cache clear throws), the run has probed no pair and the     *)
(* error reaches the caller: the manual trigger does not answer that the   *)
(* fetch completed.                                                        *)
(***************************************************************************)
C13_SetupFailureReachesCaller ==
    \A p \in Providers :
        SetupFailed(rr[p]) =>
            /\ rr[p].k = 1 /\ rr[p].successCount = 0 /\ rr[p].errorCount = 0
            /\ TriggerResponse(rr[p]).status # 200

(***************************************************************************)
(* C14 as stated: a route fetch run of one provider deletes and modifies   *)
(* only that provider's rows: the routes_cache rows of the other provider  *)
(* are the same after the run as before it (the runs follow one another,   *)
(* so "before" is the cache the run before it left).                       *)
(***************************************************************************)
C14_OtherProviderRowsKept ==
    hist.last.provider # "none" =>
        {r \in DOMAIN hist.last.cache : r.provider # hist.last.provider}
            = {r \in DOMAIN hist.prev.cache : r.provider # hist.last.provider}

(***************************************************************************)
(* C15 as stated: the DELETE of a slippage run removes only rows of the    *)
(* run's own provider: every slippage_cache row of the other provider is   *)
(* there after the step as before it, also when the runs of both providers *)
(* are under way together.                                                 *)
(***************************************************************************)
C15_ClearKeepsOtherProvider ==
    [][\A r \in SlipRuns :
          (sr[r].pc = "clear" /\ sr'[r].pc # "clear") =>
              \A w \in DOMAIN slippage_cache :
                  w.provider # ProviderOf(r) =>
                      /\ w \in DOMAIN slippage_cache'
                      /\ slippage_cache'[w] = slippage_cache[w]]_vars

(***************************************************************************)
(* C16 as stated: a read made while no run is under way returns, for each  *)
(* reader, exactly the rows of the most recent slippage run of the         *)
(* reader's provider (the rows of that provider that carry the provider's  *)
(* highest calculation_timestamp), whichever provider ran last.            *)
(***************************************************************************)
OwnRows(p) == {w \in DOMAIN slippage_cache : w.provider = p}
OwnLatestRows(p) ==
    [w \in {x \in OwnRows(p) : x.calculation_timestamp = MaxTimestamp(OwnRows(p))}
        |-> slippage_cache[w]]

C16_ReadIsPerProvider ==
    (rd.pc = "returned" /\ rd.calculationTimestamp # NoTimestamp)
    => rd.slippageData = OwnLatestRows(rd.provider)

(***************************************************************************)
(* C17 as stated: after a new run of the LiFi slippage service, the rows   *)
(* the service's previous run wrote are still in slippage_cache under that *)
(* run's calculation_timestamp, and a read returns only rows of the        *)
(* timestamp it reports.                                                   *)
(***************************************************************************)
C17_PreviousRunRowsKept ==
    /\ (slipHist.prev.run # "none" /\ slipHist.last.run # "none") =>
           \A row \in slipHist.prev.rows :
               \E w \in DOMAIN slippage_cache :
                   /\ <<w.pair_from, w.pair_to, w.amounts>> = row
                   /\ w.calculation_timestamp = slipHist.prev.ts
    /\ rd.pc = "returned" =>
           \A w \in DOMAIN rd.slippageData : w.calculation_timestamp = rd.calculationTimestamp

(***************************************************************************)
(* C18 as stated: when two runs of the Oku slippage service have           *)
(* overlapped and both have ended (with no store fault and different       *)
(* timestamps), the rows with the highest calculation_timestamp hold       *)
(* exactly one row for every pair the run of that timestamp entered.       *)
(***************************************************************************)
C18_OverlapLeavesCompleteRun ==
    (/\ sr["Oku"].pc = "done" /\ sr["OkuManual"].pc = "done"
     /\ sr["Oku"].faults = 0 /\ sr["OkuManual"].faults = 0
     /\ sr["Oku"].ts # sr["OkuManual"].ts
     /\ slippage_cache # EmptyBag)
    => \A r \in {"Oku", "OkuManual"} :
          sr[r].ts = MaxTimestamp(DOMAIN slippage_cache) =>
              \A n \in 1..sr[r].started : RowsOfPair(r, n) = 1

(***************************************************************************)
(* C19 as stated: in a slippage run, a pair whose buckets are all null is  *)
(* still inserted as a row and is counted in errorCount and not in         *)
(* successCount; a pair with at least one non-null bucket is counted in    *)
(* successCount and not in errorCount.                                     *)
(***************************************************************************)
AllNull(f) == \A b \in 1..Len(TEST_AMOUNTS) : f.slippageAmounts[b] = NullAmount
PairRow(r) ==
    SlippageRow(sr[r].tokenPairs[sr[r].k].from, sr[r].tokenPairs[sr[r].k].to, ProviderOf(r),
                sr[r].slippageAmounts, sr[r].ts)
CountedAsError(r) ==
    sr'[r].errorCount = sr[r].errorCount + 1 /\ sr'[r].successCount = sr[r].successCount
CountedAsSuccess(r) ==
    sr'[r].successCount = sr[r].successCount + 1 /\ sr'[r].errorCount = sr[r].errorCount
PairCounted(r) == sr[r].pc = "insert" /\ sr'[r] # sr[r]

C19_AllNullIsError ==
    [][\A r \in SlipEntries :
          PairCounted(r) =>
              IF AllNull(sr[r])
              THEN slippage_cache' = InsertRow(slippage_cache, PairRow(r)) /\ CountedAsError(r)
              ELSE CountedAsSuccess(r)]_vars

(***************************************************************************)
(* C19, amended: when the INSERT of the pair's row succeeds, the row is    *)
(* written whatever its buckets, an all-null pair is counted in errorCount *)
(* only and a pair with a non-null bucket in successCount only; when the   *)
(* INSERT fails, no row is written and the pair is counted in errorCount   *)
(* only, whatever its buckets.                                             *)
(***************************************************************************)
C19_CountingAfterInsert ==
    [][\A r \in SlipEntries :
          PairCounted(r) =>
              IF slippage_cache' # slippage_cache
              THEN /\ slippage_cache' = InsertRow(slippage_cache, PairRow(r))
                   /\ IF AllNull(sr[r]) THEN CountedAsError(r) ELSE CountedAsSuccess(r)
              ELSE CountedAsError(r)]_vars

\* a run has written an all-null pair (an error) and a pair with a number (a
\* success), both rows are in the table
C19_Witness ==
    \E r \in SlipRuns :
        /\ sr[r].pc = "done" /\ sr[r].faults = 0
        /\ sr[r].successCount = 1 /\ sr[r].errorCount = 1
        /\ \E w \in sr[r].written :
              /\ w \in DOMAIN slippage_cache
              /\ \A b \in 1..Len(TEST_AMOUNTS) : w.amounts[b] = NullAmount
        /\ \E w \in sr[r].written :
              /\ w \in DOMAIN slippage_cache
              /\ \E b \in 1..Len(TEST_AMOUNTS) : w.amounts[b] # NullAmount

(***************************************************************************)
(* C20: the pair list a slippage run derives from the cached routes holds  *)
(* no pair twice and never both (A,B) and (B,A); when the routes cache     *)
(* holds both directions, the direction met first in (pair_from, pair_to)  *)
(* order is in the list and the other one is not.                          *)
(***************************************************************************)
Reverse(q) == [from |-> q.to, to |-> q.from]
ListedPairs(r) == {sr[r].tokenPairs[n] : n \in 1..Len(sr[r].tokenPairs)}
BothDirections(r) ==
    {x \in ExistingRoutes(ProviderOf(r)) :
        /\ x.pair_from # x.pair_to
        /\ {x.pair_from, x.pair_to} \subseteq SeqRange(tokens)
        /\ PairBefore(<<x.pair_from, x.pair_to>>, <<x.pair_to, x.pair_from>>)
        /\ \E y \in ExistingRoutes(ProviderOf(r)) :
              y.pair_from = x.pair_to /\ y.pair_to = x.pair_from}

C20_OneDirectionPerPair ==
    \A r \in SlipRuns :
        sr[r].pc # "idle" =>
            /\ \A m, n \in 1..Len(sr[r].tokenPairs) :
                  m # n => /\ sr[r].tokenPairs[m] # sr[r].tokenPairs[n]
                           /\ sr[r].tokenPairs[m] # Reverse(sr[r].tokenPairs[n])
            /\ sr[r].tokenPairs # <<>> =>
                  \A x \in BothDirections(r) :
                      /\ [from |-> x.pair_from, to |-> x.pair_to] \in ListedPairs(r)
                      /\ [from |-> x.pair_to, to |-> x.pair_from] \notin ListedPairs(r)

\* a run that found both directions of a pair in the routes cache has probed
\* and written the first one
C20_Witness ==
    \E r \in SlipRuns :
        /\ sr[r].pc = "done"
        /\ BothDirections(r) # {}
        /\ \E x \in BothDirections(r) :
              \E w \in sr[r].written : w.pair_from = x.pair_from /\ w.pair_to = x.pair_to

(***************************************************************************)
(* C21: when the routes cache is not empty, every pair probed by a         *)
(* provider's slippage run has, in one of its two directions, a Route      *)
(* Record of that same provider; a pair routed only by the other provider  *)
(* is never probed.                                                        *)
(***************************************************************************)
RoutedBy(p, q) ==
    \E x \in DOMAIN routes_cache :
        /\ x.provider = p
        /\ \/ (x.pair_from = q.from /\ x.pair_to = q.to)
           \/ (x.pair_from = q.to /\ x.pair_to = q.from)

C21_ProbedPairsRoutedByProvider ==
    \A r \in SlipRuns :
        (sr[r].pc # "idle" /\ routes_cache # EmptyBag) =>
            \A n \in 1..sr[r].started : RoutedBy(ProviderOf(r), sr[r].tokenPairs[n])

(***************************************************************************)
(* C22: when no cached route the run reads names two registered tokens     *)
(* (derived mode yields no pair), the pair list of the slippage run is the *)
(* fallback pairs USDC->WETH, USDC->USDT, WETH->WBTC whose two symbols are *)
(* both in the token registry, in that order, and it is not empty when the *)
(* registry holds both tokens of at least one of them.                     *)
(***************************************************************************)
Registered(q) == q.from \in SeqRange(tokens) /\ q.to \in SeqRange(tokens)
NoDerivedPair(r) ==
    \A x \in ExistingRoutes(ProviderOf(r)) :
        ~Registered([from |-> x.pair_from, to |-> x.pair_to])
ExpectedFallback ==
    SelectSeq(<< [from |-> "USDC", to |-> "WETH"], [from |-> "USDC", to |-> "USDT"],
                 [from |-> "WETH", to |-> "WBTC"] >>, Registered)
\* the run got past its reads: it has a pair list
HasPairList(r) == sr[r].pc # "idle" /\ ~(sr[r].pc = "done" /\ sr[r].started = 0 /\ sr[r].written = {}
                                         /\ sr[r].faults > 0 /\ sr[r].tokenPairs = <<>>)

C22_FallbackWhenNoRoutes ==
    \A r \in SlipRuns :
        (HasPairList(r) /\ NoDerivedPair(r)) =>
            /\ sr[r].tokenPairs = ExpectedFallback
            /\ (\E q \in {<<"USDC", "WETH">>, <<"USDC", "USDT">>, <<"WETH", "WBTC">>} :
                    {q[1], q[2]} \subseteq SeqRange(tokens)) => sr[r].tokenPairs # <<>>

\* a run that found no cached route has probed and written the two fallback
\* pairs the registry holds, and not the third
C22_Witness ==
    \E r \in SlipRuns :
        /\ sr[r].pc = "done" /\ NoDerivedPair(r)
        /\ "WBTC" \notin SeqRange(tokens)
        /\ {<<w.pair_from, w.pair_to>> : w \in sr[r].written} =
               {<<"USDC", "WETH">>, <<"USDC", "USDT">>}

(***************************************************************************)
(* C23: when the source USD value of a quote is zero, the bucket is stored *)
(* as null: no division by zero is performed and no non-finite value is    *)
(* stored.                                                                 *)
(***************************************************************************)
C23_ZeroSourceIsNull ==
    (calc.done /\ calc.fromAmountUSD = 0) => calc.stored = NULL

(***************************************************************************)
(* C24: every pipeline run eventually terminates when each request         *)
(* eventually returns a response or an error, also on an upstream that     *)
(* answers every UpdateQuoteParams or GetNewQuotes request with the        *)
(* "order already completed or canceled" signal.                           *)
(***************************************************************************)
C24_EveryRunTerminates ==
    \A p \in Providers : (rr[p].pc \notin {"idle", "done"}) ~> (rr[p].pc = "done")

(***************************************************************************)
(* C25: in one Oku slippage run, the total number of HTTP requests sent to *)
(* the upstream (Create, UpdateQuoteParams and GetNewQuotes, retries       *)
(* included) is at most MAX_REQUESTS_PER_HOUR.                             *)
(***************************************************************************)
C25_OkuRequestsWithinCeiling == sr["Oku"].requests <= MAX_REQUESTS_PER_HOUR

(***************************************************************************)
(* C26: in the Oku route fetch, as long as no "order already completed or  *)
(* canceled" signal has arrived in a probe, the probe has sent at most 3   *)
(* UpdateQuoteParams and at most 5 GetNewQuotes requests; the third update *)
(* request in a row that fails, and the fifth quote request when it fails, *)
(* abort the probe with an error: the pair is counted in errorCount,       *)
(* nothing is written and the run goes on with the next pair.              *)
(***************************************************************************)
NoSignalYet == rr["Oku"].expired = 0
ProbeAborted ==
    /\ rr'["Oku"].pc = "loop" /\ rr'["Oku"].k = rr["Oku"].k + 1
    /\ rr'["Oku"].errorCount = rr["Oku"].errorCount + 1
    /\ rr'["Oku"].successCount = rr["Oku"].successCount
    /\ rr'["Oku"].answers = Append(rr["Oku"].answers, Answer("failed", <<>>))
    /\ routes_cache' = routes_cache

C26_BoundedAttempts ==
    /\ [](NoSignalYet => (rr["Oku"].updates <= 3 /\ rr["Oku"].quotes <= 5))
    /\ [][(NoSignalYet /\ rr["Oku"].pc = "update" /\ rr["Oku"].updates = 2
           /\ rr'["Oku"].resp = "error") => ProbeAborted]_vars
    /\ [][(NoSignalYet /\ rr["Oku"].pc = "quote" /\ rr["Oku"].quotes = 4
           /\ rr'["Oku"].resp = "error") => ProbeAborted]_vars

\* a probe without a signal in which two update requests failed and the third
\* succeeded, and four quote requests have failed: the next one is the fifth
C26_Witness ==
    /\ NoSignalYet /\ rr["Oku"].pc = "quote"
    /\ rr["Oku"].updates = 3 /\ rr["Oku"].quotes = 4 /\ rr["Oku"].retry = 4
    /\ rr["Oku"].resp = "error"

(***************************************************************************)
(* C27: every GetNewQuotes request sent for a pair carries an order id on  *)
(* which an UpdateQuoteParams request for that same pair has already       *)
(* succeeded, also the quote request re-issued after the order was         *)
(* recreated on an "order already completed or canceled" signal during the *)
(* quote step.                                                             *)
(***************************************************************************)
C27_QuoteOnUpdatedOrder ==
    rr["Oku"].pc = "quote" =>
        (rr["Oku"].paramsSet /\ rr["Oku"].reqOrderId = rr["Oku"].currentOrderId)

(***************************************************************************)
(* C28: in the Oku route fetch, no order handle is used for the requests   *)
(* of more than ORDER_REFRESH_INTERVAL pairs, whether those pairs          *)
(* succeeded, failed or found no venue: the pair after them is probed on a *)
(* newly created order.                                                    *)
(***************************************************************************)
C28_OrderServesBoundedPairs == rr["Oku"].orderPairs <= ORDER_REFRESH_INTERVAL

(***************************************************************************)
(* C29: within one pipeline run the pairs are processed one after the      *)
(* other: while the run is at pair k every earlier pair has ended (its     *)
(* requests answered, its outcome recorded), a step of the run stays at    *)
(* pair k or moves to pair k + 1, and a cache write of the run is the row  *)
(* of pair k, after which the run moves on to pair k + 1.                  *)
(***************************************************************************)
InPairLoop(p) == rr[p].pc \in {"loop", "update", "quote"}
LastAnswer(f) == f.answers[Len(f.answers)]

Evaluates == rr["Oku"].pc = "quote" /\ rr'["Oku"].k = rr["Oku"].k + 1
             /\ rr'["Oku"].resp = "quotes"
Evaluated == rr'["Oku"].quotesResponse
Quoted(e) == e.st \in {"ok", "simFailed"}
SomeQuoted == \E n \in 1..Len(Evaluated) : Quoted(Evaluated[n])

VenueListFits(d, q) ==
    /\ \A n \in 1..Len(q) :
          Quoted(q[n]) =>
              /\ Cardinality({i \in 1..Len(d) : d[i].name = q[n].router}) = 1
              /\ \A i \in 1..Len(d) :
                    d[i].name = q[n].router => (d[i].mark = "X" <=> q[n].st = "simFailed")
    /\ \A i \in 1..Len(d) : \E n \in 1..Len(q) : Quoted(q[n]) /\ d[i].name = q[n].router
    /\ \A i, j \in 1..Len(d) : i < j => ~(d[i].mark = "X" /\ d[j].mark = "")

RecordUpserted ==
    /\ rr'["Oku"].successCount = rr["Oku"].successCount + 1
    /\ rr'["Oku"].errorCount = rr["Oku"].errorCount
    /\ \E w \in DOMAIN routes_cache' :
          /\ RouteKey(w) = <<rr["Oku"].tokenPairs[rr["Oku"].k].from,
                             rr["Oku"].tokenPairs[rr["Oku"].k].to, "Oku">>
          /\ routes_cache'[w] = 1
          /\ Len(w.routes_data.routes) = 1 /\ w.routes_data.routes[1].aggregator = "Oku"
          /\ VenueListFits(w.routes_data.routes[1].dexes, Evaluated)
          /\ DeleteRows(routes_cache', {w}) =
                 DeleteRows(routes_cache, {x \in DOMAIN routes_cache : RouteKey(x) = RouteKey(w)})
NothingUpserted ==
    /\ routes_cache' = routes_cache
    /\ rr'["Oku"].successCount = rr["Oku"].successCount
UpsertFailed == NothingUpserted /\ rr'["Oku"].errorCount = rr["Oku"].errorCount + 1

C30_RecordIffQuoted ==
    [][Evaluates => IF SomeQuoted THEN RecordUpserted
                    ELSE (NothingUpserted /\ rr'["Oku"].errorCount = rr["Oku"].errorCount)]_vars

(***************************************************************************)
(* C30, amended: the same, provided the upsert statement succeeds; when it *)
(* fails the cache is left as it was and the pair is counted in            *)
(* errorCount.  A response without such a router writes nothing and counts *)
(* nothing.                                                                *)
(***************************************************************************)
C30_RecordIffQuotedAndStored ==
    [][Evaluates => IF SomeQuoted THEN (RecordUpserted \/ UpsertFailed)
                    ELSE (NothingUpserted /\ rr'["Oku"].errorCount = rr["Oku"].errorCount)]_vars

\* the response gave a failed simulation for the first router and a clean
\* quote for the second: the row of the pair lists the second one first
C30_Witness ==
    /\ rr["Oku"].pc = "loop" /\ rr["Oku"].k = 2 /\ rr["Oku"].successCount = 1
    /\ rr["Oku"].quotesResponse = << [router |-> "threeroute", st |-> "simFailed"],
                                      [router |-> "usor", st |-> "ok"] >>
    /\ RouteRow(rr["Oku"].tokenPairs[1].from, rr["Oku"].tokenPairs[1].to, "Oku",
                << [name |-> "usor", mark |-> ""], [name |-> "threeroute", mark |-> "X"] >>)
          \in DOMAIN routes_cache

(***************************************************************************)
(* C31: in the Oku route fetch, a pair whose probe yields no eligible      *)
(* venue, is skipped for a missing price, or fails after retries leaves    *)
(* the routes_cache row of (from, to, 'Oku') exactly as it was before the  *)
(* pair was processed.  No step of the processing of a pair touches the    *)
(* rows of the pair, except the step that ends the pair with a venue list  *)
(* that is not empty.                                                      *)
(***************************************************************************)
\* the rows of the Oku record of pair n of the run, with their multiplicity
OkuRowsOfPair(table, f, n) ==
    LET S == {r \in DOMAIN table :
                 RouteKey(r) = <<f.tokenPairs[n].from, f.tokenPairs[n].to, "Oku">>}
    IN  [r \in S |-> table[r]]

\* the step ends the pair with a record: quotes evaluated, a venue eligible
EndsWithRecord ==
    /\ rr'["Oku"].k = rr["Oku"].k + 1
    /\ LastAnswer(rr'["Oku"]).a = "quotes"
    /\ LastAnswer(rr'["Oku"]).dexes # <<>>

C31_NoRecordNoWrite ==
    [][(InPairLoop("Oku") /\ rr["Oku"].k <= Len(rr["Oku"].tokenPairs) /\ ~EndsWithRecord)
          => OkuRowsOfPair(routes_cache', rr["Oku"], rr["Oku"].k)
               = OkuRowsOfPair(routes_cache, rr["Oku"], rr["Oku"].k)]_vars

\* the second Oku run has ended: its first pair failed after retries, its
\* second pair had no eligible venue, and the records the first run wrote
\* for both pairs are still in the cache
C31_Witness ==
    /\ rr["Oku"].pc = "done" /\ rr["Oku"].runs = 2 /\ Len(rr["Oku"].answers) = 2
    /\ rr["Oku"].answers[1].a = "failed"
    /\ rr["Oku"].answers[2] = Answer("quotes", <<>>)
    /\ \A n \in 1..2 : OkuRowsOfPair(routes_cache, rr["Oku"], n) # << >>
    /\ hist.prev.provider = "Oku"

(***************************************************************************)
(* C32: in the LiFi slippage pipeline a bucket whose request fails with a  *)
(* 429 error is retried after the wait exactly once if the request counter *)
(* is below the ceiling and not at all otherwise; the retry increments the *)
(* counter, one bucket causes at most two upstream requests, and a failed  *)
(* retry leaves the bucket null.                                           *)
(***************************************************************************)
\* the run leaves the amount it was at, with n requests sent for it
BucketLeft(r, n) ==
    /\ sr'[r].k = sr[r].k /\ sr'[r].j = sr[r].j + 1
    /\ sr'[r].pc \in {"bucketDelay", "insert"}
    /\ sr'[r].bucketRequests = n
SameBucket(r) == sr'[r].k = sr[r].k /\ sr'[r].j = sr[r].j
BucketNull(r) == sr'[r].slippageAmounts[sr[r].j] = NullAmount

C32_RetryOnceBelowCeiling ==
    /\ [](\A r \in LifiEntries : sr[r].bucketRequests <= 2)
    /\ [][\A r \in LifiEntries :
             sr'[r] # sr[r] =>
                /\ (sr[r].pc = "quote" /\ upstream.lifi[<<sr[r].j, 1>>] = "429") =>
                      (sr'[r].pc = "retryWait" /\ SameBucket(r) /\ sr'[r].bucketRequests = 1)
                /\ sr[r].pc = "retryWait" =>
                      IF requestCount["LiFi"] < MAX_REQUESTS_PER_HOUR
                      THEN /\ sr'[r].pc = "retryQuote" /\ SameBucket(r)
                           /\ requestCount'["LiFi"] = requestCount["LiFi"] + 1
                      ELSE /\ BucketLeft(r, 1) /\ BucketNull(r)
                           /\ requestCount' = requestCount
                /\ sr[r].pc = "retryQuote" =>
                      /\ BucketLeft(r, 2)
                      /\ upstream.lifi[<<sr[r].j, 2>>] # "routes" => BucketNull(r)]_vars

\* the manual run was answered 429 twice for its first amount and left it
\* null after two requests; the scheduled run was answered 429 once, found
\* the counter at the ceiling after the wait and left the amount null after
\* one request
C32_Witness ==
    /\ upstream.lifi[<<1, 2>>] = "429"
    /\ sr["LiFiManual"].pc = "bucketDelay" /\ sr["LiFiManual"].j = 2
    /\ sr["LiFiManual"].bucketRequests = 2
    /\ sr["LiFiManual"].slippageAmounts[1] = NullAmount
    /\ sr["LiFi"].pc = "insert" /\ sr["LiFi"].j = 2 /\ sr["LiFi"].ceiling
    /\ sr["LiFi"].bucketRequests = 1
    /\ sr["LiFi"].slippageAmounts[1] = NullAmount

(***************************************************************************)
(* C33: at startup with FETCH_ROUTES_ON_STARTUP and                        *)
(* FETCH_SLIPPAGE_ON_STARTUP both "true", no slippage fetch starts before  *)
(* both route fetches (LiFi, then Oku) have finished; with a flag not      *)
(* equal to "true", the corresponding fetch is never started at startup.   *)
(***************************************************************************)
StartupRun(fn) == srv.run[<<"startup", fn>>]
StartupStarted(fn) == StartupRun(fn).pc # "idle"
StartupFinished(fn) == StartupRun(fn).pc = "done"

C33_StartupOrder ==
    /\ srv.env.FETCH_ROUTES_ON_STARTUP # "true" =>
          \A n \in 1..Len(RoutePipelines) : ~StartupStarted(RoutePipelines[n])
    /\ srv.env.FETCH_SLIPPAGE_ON_STARTUP # "true" =>
          \A n \in 1..Len(SlippagePipelines) : ~StartupStarted(SlippagePipelines[n])
    /\ StartupStarted("fetchAndCacheOkuData") => StartupFinished("fetchAndCacheLiFiData")
    /\ (srv.env.FETCH_ROUTES_ON_STARTUP = "true" /\ srv.env.FETCH_SLIPPAGE_ON_STARTUP = "true") =>
          \A n \in 1..Len(SlippagePipelines) :
             StartupStarted(SlippagePipelines[n]) =>
                 \A m \in 1..Len(RoutePipelines) : StartupFinished(RoutePipelines[m])

\* both flags are "true", the two route fetches of the startup have written
\* their rows and returned, and the LiFi slippage fetch of the startup is
\* about to read the routes they left
C33_Witness ==
    /\ srv.env = [FETCH_ROUTES_ON_STARTUP |-> "true", FETCH_SLIPPAGE_ON_STARTUP |-> "true"]
    /\ StartupFinished("fetchAndCacheLiFiData") /\ StartupFinished("fetchAndCacheOkuData")
    /\ StartupRun("fetchAndCacheSlippageData").pc = "routes"
    /\ srv.at["cronRoutes"] = 0
    /\ \E r \in DOMAIN routes_cache : r.provider = "Oku"

(***************************************************************************)
(* C34 as stated: at startup, no pipeline run reads the tokens table       *)
(* before runMigrations and upsertTokens have both completed.              *)
(***************************************************************************)
\* the step in which the query of run id on the tokens table is answered
AnswersTokensQuery(id) == srv.run[id].pc = "tokens" /\ srv'.run[id].pc # "tokens"

C34_TokensReadAfterSetup ==
    [][\A id \in RunIds :
          (id[1] = "startup" /\ AnswersTokensQuery(id)) => srv.setup = "done"]_vars

(***************************************************************************)
(* C35 as stated: when the daily schedule fires, the daily slippage runs   *)
(* do not read routes_cache while the daily route fetch is still in        *)
(* progress.                                                               *)
(***************************************************************************)
\* the routes callback of the schedule has fired and has not returned
DailyRouteFetchInProgress == srv.at["cronRoutes"] \in 1..Len(RoutePipelines)
AnswersRoutesQuery(id) == srv.run[id].pc = "routes" /\ srv'.run[id].pc # "routes"

C35_SlippageReadsSettledRoutes ==
    [][\A id \in RunIds :
          (id[1] = "cronSlippage" /\ AnswersRoutesQuery(id)) => ~DailyRouteFetchInProgress]_vars

(***************************************************************************)
(* C36 as stated: the combined GET /routes response contains every cached  *)
(* Route Record exactly once, and providers.lifi.count equals the number   *)
(* of routes_cache rows whose provider is LiFi.  Stated of a response     *)
(* whose two readers were answered by the database.                        *)
(***************************************************************************)
\* the rows of routes_cache whose provider is p
RoutesOfProvider(p) == {r \in DOMAIN routes_cache : r.provider = p}

\* how many entries of the response's routes are the record of row r
TimesListed(r) ==
    Cardinality({n \in 1..Len(srv.response.routes) : srv.response.routes[n] = r.routes_data})

C36_EveryRecordOnce ==
    (srv.pc = "responded" /\ ~srv.failed) =>
        /\ \A r \in DOMAIN routes_cache : TimesListed(r) = 1
        /\ srv.response.providers.lifi.count = Cardinality(RoutesOfProvider("LiFi"))

(***************************************************************************)
(* C37 as stated: in the Oku route fetch, when five GetNewQuotes attempts  *)
(* all return without both routers fetched, the probe is not counted as an *)
(* error: the routers fetched in the last response are still evaluated and *)
(* a Route Record is written if any of them is eligible.                   *)
(***************************************************************************)
\* the step in which the fifth attempt in a row returns a response without
\* both routers fetched
FifthUnfetched ==
    /\ rr["Oku"].pc = "quote" /\ rr["Oku"].retry = maxRetries - 1 /\ ~rr["Oku"].threw
    /\ rr'["Oku"].resp = "quotes" /\ ~HasFetchedQuotes(rr'["Oku"].quotesResponse)

\* the pair ends with the evaluation of that response
LastResponseEvaluated ==
    /\ rr'["Oku"].k = rr["Oku"].k + 1 /\ rr'["Oku"].pc = "loop"
    /\ Evaluated = rr'["Oku"].quotesResponse

C37_UnfetchedStillEvaluated ==
    [][FifthUnfetched =>
          /\ LastResponseEvaluated
          /\ rr'["Oku"].errorCount = rr["Oku"].errorCount
          /\ IF SomeQuoted THEN RecordUpserted ELSE NothingUpserted]_vars

(***************************************************************************)
(* C37, amended: the same, provided the upsert statement succeeds; when it *)
(* fails nothing is written and the pair is counted in errorCount.         *)
(***************************************************************************)
C37_UnfetchedStillEvaluatedAndStored ==
    [][FifthUnfetched =>
          /\ LastResponseEvaluated
          /\ IF SomeQuoted THEN (RecordUpserted \/ UpsertFailed)
             ELSE (NothingUpserted /\ rr'["Oku"].errorCount = rr["Oku"].errorCount)]_vars

\* five requests went out on one order and none was answered with both
\* routers fetched; the one router the last response had fetched is the
\* venue of the row written for the pair
C37_Witness ==
    /\ rr["Oku"].pc = "loop" /\ rr["Oku"].k = 2 /\ ~rr["Oku"].threw
    /\ rr["Oku"].successCount = 1 /\ rr["Oku"].errorCount = 0
    /\ rr["Oku"].quotesResponse = << [router |-> "threeroute", st |-> "notFetched"],
                                      [router |-> "usor", st |-> "ok"] >>
    /\ rr["Oku"].answers = << Answer("quotes", << [name |-> "usor", mark |-> ""] >>) >>
    /\ RouteRow(rr["Oku"].tokenPairs[1].from, rr["Oku"].tokenPairs[1].to, "Oku",
                << [name |-> "usor", mark |-> ""] >>) \in DOMAIN routes_cache
(***************************************************************************)
(* C38: in the Oku slippage pipeline, when more than one router returns an *)
(* eligible quote (fetched, with a quote, no simulationError), the         *)
(* slippage is computed from the quote with the largest outAmount.         *)
(***************************************************************************)
EligibleRouters(q) == {q[n].router : n \in {m \in 1..Len(q) : q[m].st = "ok"}}
LargestOutAmount(q) ==
    CHOOSE a \in {OkuQuoteAmounts(r) : r \in EligibleRouters(q)} :
        \A r \in EligibleRouters(q) : OkuQuoteAmounts(r).outAmount <= a.outAmount

C38_LargestOutAmountUsed ==
    (calc.done /\ Cardinality(EligibleRouters(calc.quotes)) > 1
               /\ calc.to \in DOMAIN tokenPrices)
    => calc.slippage = AmountOf(LargestOutAmount(calc.quotes).inAmount * tokenPrices[calc.from],
                                LargestOutAmount(calc.quotes).outAmount * tokenPrices[calc.to])
(***************************************************************************)
(* C39: queryWithRetry runs the query at most maxRetries times, returns    *)
(* the result of the first successful attempt without any further attempt, *)
(* and after maxRetries consecutive failures rethrows the error of the     *)
(* last attempt; it never returns without a result when every attempt      *)
(* failed.  Checked for every whole maxRetries from 1 up.                  *)
(***************************************************************************)
QuerySettled == calc.pc \in {"returned", "threw"}
AllFailedSoFar == Len(calc.log) = calc.queries

C39_RetryAndRethrow ==
    /\ [](/\ calc.queries <= calc.maxRetries
          /\ calc.pc = "returned" =>
                /\ calc.result = QueryResult(calc.queries)
                /\ Len(calc.log) = calc.queries - 1
                /\ \A n \in 1..Len(calc.log) : calc.log[n].attempt = n
          /\ (AllFailedSoFar /\ calc.queries = calc.maxRetries) <=> calc.pc = "threw"
          /\ calc.pc = "threw" => calc.thrown = calc.log[calc.maxRetries].error
          /\ (QuerySettled /\ AllFailedSoFar) => calc.pc = "threw")
    /\ [][~QuerySettled /\ calc'.queries \in {calc.queries, calc.queries + 1}]_vars

\* a call with the default maxRetries failed twice and returned the result
\* of its third attempt
C39_Witness ==
    /\ calc.maxRetries = DefaultMaxRetries /\ calc.pc = "returned"
    /\ calc.queries = DefaultMaxRetries /\ Len(calc.log) = DefaultMaxRetries - 1
    /\ calc.result = QueryResult(DefaultMaxRetries)
====
